---------------------------- MODULE Spec2Model ----------------------------
(***************************************************************************)
(* k8s-wizard: the wizard state machine (internal/app), its asynchronous   *)
(* tasks and the versioned output store kept under saved_cmd/.             *)
(*                                                                         *)
(* Strings are sequences of tokens.  A token is one character, except for  *)
(* a few multi-character atoms (".txt", "kubectl", flag texts) that the    *)
(* code only ever handles as a whole.                                      *)
(***************************************************************************)
EXTENDS Integers, Sequences, FiniteSets, TLC

VARIABLES
    savedCmdDir,    \* TRUE iff the directory saved_cmd exists
    files,          \* saved_cmd/<name>.txt : name -> content
    index,          \* saved_cmd/index.json : command -> base name
    lastTask,       \* the deferred task that ran last, with the message it produced
    m,              \* the Model value threaded through Update
    favourites,     \* favStore contents: sequence of [Name, Command]
    bindings,       \* hotkeyStore contents: key -> [Name, Command]
    history,        \* historyStore contents, newest first
    inflight,       \* the deferred tasks (tea.Cmd) started and not yet handled
    quit,           \* TRUE once Update has returned tea.Quit
    flow,           \* what the user went through since the last wizard reset
    updates         \* how many messages Update has handled in the session

storeVars == <<savedCmdDir, files, index, lastTask>>

uiVars == <<m, favourites, bindings, history, inflight, quit, flow, updates>>

vars == <<storeVars, uiVars>>

-----------------------------------------------------------------------------
(* Bounds of the model                                                     *)

MaxFiles == 2           \* files kept in saved_cmd
MaxVersion == 3         \* highest version number a save may create
MaxInFlight == 2        \* deferred tasks in flight at once
MaxUpdates == 7         \* messages Update handles in one session
MaxFlags == 2           \* flags selected on the checklist
MaxFavourites == 1      \* favourites kept in the store
MaxHistory == 1         \* history entries kept in the model
MaxEsc == 5             \* presses of Esc from the deepest screen to the main menu

-----------------------------------------------------------------------------
(* strings, regexp, strconv                                                *)

Digit == {"0", "1", "2", "3", "4", "5", "6", "7", "8", "9"}

DigitVal(t) ==
    CASE t = "0" -> 0 [] t = "1" -> 1 [] t = "2" -> 2 [] t = "3" -> 3
      [] t = "4" -> 4 [] t = "5" -> 5 [] t = "6" -> 6 [] t = "7" -> 7
      [] t = "8" -> 8 [] t = "9" -> 9

DigitTok(n) ==
    CASE n = 0 -> "0" [] n = 1 -> "1" [] n = 2 -> "2" [] n = 3 -> "3"
      [] n = 4 -> "4" [] n = 5 -> "5" [] n = 6 -> "6" [] n = 7 -> "7"
      [] n = 8 -> "8" [] n = 9 -> "9"

RECURSIVE TrimLeft(_)
TrimLeft(s) == IF s # <<>> /\ Head(s) = " " THEN TrimLeft(Tail(s)) ELSE s

RECURSIVE TrimRight(_)
TrimRight(s) ==
    IF s # <<>> /\ s[Len(s)] = " " THEN TrimRight(SubSeq(s, 1, Len(s) - 1)) ELSE s

\* strings.TrimSpace
TrimSpace(s) == TrimRight(TrimLeft(s))

\* strings.HasSuffix
HasSuffix(s, suf) ==
    /\ Len(s) >= Len(suf)
    /\ SubSeq(s, Len(s) - Len(suf) + 1, Len(s)) = suf

\* strings.HasPrefix
HasPrefix(s, pre) ==
    /\ Len(s) >= Len(pre)
    /\ SubSeq(s, 1, Len(pre)) = pre

\* strings.TrimSuffix
TrimSuffix(s, suf) ==
    IF HasSuffix(s, suf) THEN SubSeq(s, 1, Len(s) - Len(suf)) ELSE s

Txt == <<".txt">>

\* strconv.Atoi on a string of digits (the model keeps them far below the int range)
RECURSIVE Atoi(_)
Atoi(d) ==
    IF d = <<>> THEN 0
    ELSE 10 * Atoi(SubSeq(d, 1, Len(d) - 1)) + DigitVal(d[Len(d)])

\* the %d verb of fmt.Sprintf for n >= 0
RECURSIVE Itoa(_)
Itoa(n) == IF n < 10 THEN <<DigitTok(n)>> ELSE Itoa(n \div 10) \o <<DigitTok(n % 10)>>

\* regexp ^(.*)_v(\d+)$ : the positions at which "_v" starts a suffix of digits
VersionIdx(s) ==
    {i \in 1..(Len(s) - 2) :
        /\ s[i] = "_"
        /\ s[i + 1] = "v"
        /\ \A j \in (i + 2)..Len(s) : s[j] \in Digit}

\* versionRe.FindStringSubmatch: <<>> for nil, else <<whole, group 1, group 2>>
FindStringSubmatch(s) ==
    IF VersionIdx(s) = {} THEN <<>>
    ELSE LET i == CHOOSE k \in VersionIdx(s) : TRUE
         IN  <<s, SubSeq(s, 1, i - 1), SubSeq(s, i + 2, Len(s))>>

NoErr == "nil"


-----------------------------------------------------------------------------
(* Messages produced by the deferred tasks (messages.go)                   *)

outputSavedMsg(filename, err) ==
    [type |-> "outputSavedMsg", filename |-> filename, err |-> err]

savedOutputRenamedMsg(err) == [type |-> "savedOutputRenamedMsg", err |-> err]

savedOutputsLoadedMsg(fs, err) ==
    [type |-> "savedOutputsLoadedMsg", files |-> fs, err |-> err]

-----------------------------------------------------------------------------
(* The versioned output store                                              *)

EmptyMap == [x \in {} |-> <<>>]

Put(f, k, v) == [x \in DOMAIN f \cup {k} |-> IF x = k THEN v ELSE f[x]]

Restrict(f, S) == [x \in S |-> f[x]]

\* the outcome of a task on the directory: its new state and the message
Result(d, f, ix, msg) == [dir |-> d, files |-> f, index |-> ix, msg |-> msg]

\* a base that keeps the version suffix as typed
baseNameAsTyped(trimmedName) == trimmedName

\* the base of a name as saveOutput derives it: the prefix before _vN, if not empty
baseName(trimmedName) ==
    LET matches == FindStringSubmatch(trimmedName)
    IN  IF matches # <<>> /\ matches[2] # <<>> THEN matches[2] ELSE trimmedName

\* the base of a directory entry as the group operations derive it
fileBase(name) ==
    LET matches == FindStringSubmatch(name)
    IN  IF matches # <<>> THEN matches[2] ELSE name

\* the version suffix of a directory entry, kept by a group rename
fileSuffix(name) ==
    LET matches == FindStringSubmatch(name)
    IN  IF matches # <<>> THEN <<"_", "v">> \o matches[3] ELSE <<>>

SetMax(S) == CHOOSE n \in S : \A k \in S : k <= n

\* the scan of saveOutput: the greatest version under baseName, 0 when there is none
maxVersionOf(bn, f) ==
    LET bare == IF bn \in DOMAIN f THEN {1} ELSE {}
        versioned == {Atoi(FindStringSubmatch(existing)[3]) :
                         existing \in {e \in DOMAIN f \ {bn} :
                             /\ FindStringSubmatch(e) # <<>>
                             /\ FindStringSubmatch(e)[2] = bn}}
    IN  SetMax({0} \cup bare \cup versioned)

\* a target that is always the bare base
targetNameOfBare(bn, f) == bn

targetNameOf(bn, f) ==
    IF maxVersionOf(bn, f) > 0
    THEN bn \o <<"_", "v">> \o Itoa(maxVersionOf(bn, f) + 1)
    ELSE bn

setSavedOutputBaseNameForCommand(command, bn, ix) ==
    LET cmd == TrimSpace(command)
        b == TrimSpace(TrimSuffix(bn, Txt))
    IN  IF cmd = <<>> \/ b = <<>> THEN ix ELSE Put(ix, cmd, b)

saveOutput(name, content, command, d, f, ix) ==
    LET trimmedName == TrimSpace(TrimSuffix(name, Txt))
        bn == baseName(trimmedName)
        targetName == targetNameOf(bn, f)
    IN  IF trimmedName = <<>>
        THEN Result(TRUE, f, ix, outputSavedMsg(<<>>, "output name cannot be empty"))
        ELSE Result(TRUE, Put(f, targetName, content),
                    setSavedOutputBaseNameForCommand(command, bn, ix),
                    outputSavedMsg(targetName \o Txt, NoErr))

removeSavedOutputsIndexForBase(bn, ix) ==
    LET b == TrimSpace(TrimSuffix(bn, Txt))
    IN  IF b = <<>> THEN ix
        ELSE Restrict(ix, {cmd \in DOMAIN ix : ix[cmd] # b})

savedOutputGroupExists(bn, d, f) ==
    LET b == TrimSpace(TrimSuffix(bn, Txt))
    IN  /\ b # <<>>
        /\ d
        /\ \E name \in DOMAIN f : fileBase(name) = b

updateSavedOutputsIndexOnRename(oldName, newName, ix) ==
    LET o == TrimSpace(TrimSuffix(oldName, Txt))
        n0 == TrimSpace(TrimSuffix(newName, Txt))
        n == baseName(n0)
    IN  IF o = <<>> \/ n0 = <<>> THEN ix
        ELSE [cmd \in DOMAIN ix |-> IF ix[cmd] = o THEN n ELSE ix[cmd]]

\* os.Rename: the file at old is now at new (replacing whatever was there)
Rename(f, old, new) ==
    [x \in (DOMAIN f \ {old}) \cup {new} |-> IF x = new THEN f[old] ELSE f[x]]

RECURSIVE SeqOf(_)
SeqOf(S) ==
    IF S = {} THEN <<>>
    ELSE LET x == CHOOSE e \in S : TRUE IN <<x>> \o SeqOf(S \ {x})

RECURSIVE doRenames(_, _)
doRenames(renames, f) ==
    IF renames = <<>> THEN f
    ELSE doRenames(Tail(renames), Rename(f, Head(renames)[1], Head(renames)[2]))

\* the files a group rename moves, each with its target
renamesOf(oldBase, newBase, f) ==
    {<<name, newBase \o fileSuffix(name)>> :
        name \in {e \in DOMAIN f : fileBase(e) = oldBase}}

\* renameSavedOutputGroup without the check for existing targets
renameSavedOutputGroupNoCheck(oldBase0, newBase0, d, f, ix) ==
    LET oldBase == TrimSpace(TrimSuffix(oldBase0, Txt))
        newBase == TrimSpace(TrimSuffix(newBase0, Txt))
        renames == renamesOf(oldBase, newBase, f)
    IN  IF oldBase = <<>> \/ newBase = <<>>
        THEN Result(d, f, ix, savedOutputRenamedMsg("invalid name"))
        ELSE IF oldBase = newBase
        THEN Result(d, f, ix, savedOutputRenamedMsg(NoErr))
        ELSE IF ~d
        THEN Result(d, f, ix, savedOutputRenamedMsg("no such directory"))
        ELSE IF renames = {}
        THEN Result(d, f, ix, savedOutputRenamedMsg("not found"))
        ELSE Result(d, doRenames(SeqOf(renames), f),
                    updateSavedOutputsIndexOnRename(oldBase, newBase, ix),
                    savedOutputRenamedMsg(NoErr))

renameSavedOutputGroup(oldBase0, newBase0, d, f, ix) ==
    LET oldBase == TrimSpace(TrimSuffix(oldBase0, Txt))
        newBase == TrimSpace(TrimSuffix(newBase0, Txt))
        renames == renamesOf(oldBase, newBase, f)
    IN  IF oldBase = <<>> \/ newBase = <<>>
        THEN Result(d, f, ix, savedOutputRenamedMsg("invalid name"))
        ELSE IF oldBase = newBase
        THEN Result(d, f, ix, savedOutputRenamedMsg(NoErr))
        ELSE IF ~d
        THEN Result(d, f, ix, savedOutputRenamedMsg("no such directory"))
        ELSE IF renames = {}
        THEN Result(d, f, ix, savedOutputRenamedMsg("not found"))
        ELSE IF \E rn \in renames : rn[2] \in DOMAIN f
        THEN Result(d, f, ix, savedOutputRenamedMsg("already exists"))
        ELSE Result(d, doRenames(SeqOf(renames), f),
                    updateSavedOutputsIndexOnRename(oldBase, newBase, ix),
                    savedOutputRenamedMsg(NoErr))

\* loadSavedOutputsCmd creates the directory when it is missing and lists it
loadSavedOutputsCmd(d, f, ix) ==
    Result(TRUE, f, ix, savedOutputsLoadedMsg(DOMAIN f, NoErr))

deleteSavedOutputGroup(base0, d, f, ix) ==
    LET base == TrimSpace(TrimSuffix(base0, Txt))
        kept == Restrict(f, {name \in DOMAIN f : fileBase(name) # base})
    IN  IF base = <<>>
        THEN Result(d, f, ix, savedOutputsLoadedMsg({}, "invalid name"))
        ELSE IF ~d
        THEN Result(d, f, ix, savedOutputsLoadedMsg({}, "no such directory"))
        ELSE loadSavedOutputsCmd(d, kept, removeSavedOutputsIndexForBase(base, ix))

deleteSavedOutput(filename, d, f, ix) ==
    LET kept == Restrict(f, DOMAIN f \ {filename})
        base == baseName(TrimSpace(TrimSuffix(filename, Txt)))
    IN  IF filename \notin DOMAIN f
        THEN Result(d, f, ix, savedOutputsLoadedMsg({}, "no such file"))
        ELSE IF base # <<>> /\ ~savedOutputGroupExists(base, d, kept)
        THEN loadSavedOutputsCmd(d, kept, removeSavedOutputsIndexForBase(base, ix))
        ELSE loadSavedOutputsCmd(d, kept, ix)

\* resolveForCommand: <<name, ok>> and the index as the lookup leaves it
getSavedOutputBaseNameForCommand(command, d, f, ix) ==
    LET name == IF command \in DOMAIN ix
                THEN TrimSpace(TrimSuffix(ix[command], Txt)) ELSE <<>>
    IN  IF TrimSpace(command) = <<>> \/ command \notin DOMAIN ix \/ name = <<>>
        THEN [name |-> <<>>, ok |-> FALSE, index |-> ix]
        ELSE IF ~savedOutputGroupExists(name, d, f)
        THEN [name |-> <<>>, ok |-> FALSE,
              index |-> removeSavedOutputsIndexForBase(name, ix)]
        ELSE [name |-> name, ok |-> TRUE, index |-> ix]


-----------------------------------------------------------------------------
(* Screens, resource kinds and actions (navigation.go)                     *)

MainMenuScreen == "MainMenu"
ResourceSelectionScreen == "ResourceSelection"
ActionSelectionScreen == "ActionSelection"
ResourceNameSelectionScreen == "ResourceNameSelection"
FlagsSelectionScreen == "FlagsSelection"
NamespaceInputScreen == "NamespaceInput"
CommandPreviewScreen == "CommandPreview"
CommandOutputScreen == "CommandOutput"
CommandHelpScreen == "CommandHelp"
HotkeysListScreen == "HotkeysList"
HotkeyBindScreen == "HotkeyBind"
ClusterConnectivityScreen == "ClusterConnectivity"
CommandHistoryScreen == "CommandHistory"
FavouritesListScreen == "FavouritesList"
SaveFavouriteScreen == "SaveFavourite"
RenameFavouriteScreen == "RenameFavourite"
SaveOutputNameScreen == "SaveOutputName"
SavedOutputsListScreen == "SavedOutputsList"
SavedOutputVersionsScreen == "SavedOutputVersions"
SavedOutputViewScreen == "SavedOutputView"
RenameSavedOutputScreen == "RenameSavedOutput"
ContextsNamespacesMenuScreen == "ContextsNamespacesMenu"
ContextsListScreen == "ContextsList"
NamespacesListScreen == "NamespacesList"
CustomCommandScreen == "CustomCommand"
SecretFieldSelectionScreen == "SecretFieldSelection"
ClusterInfoScreen == "ClusterInfo"
DeleteConfirmationScreen == "DeleteConfirmation"
PortInputScreen == "PortInput"

\* the zero value of Screen
ZeroScreen == MainMenuScreen

ResourcePods == "Pods"
ResourceDeployments == "Deployments"
ResourceServices == "Services"
ResourceNodes == "Nodes"
ResourceConfigMaps == "ConfigMaps"
ResourceSecrets == "Secrets"
ResourceIngress == "Ingress"

\* the zero value of ResourceType
ZeroResource == ResourcePods

ActionGet == "Get"
ActionDescribe == "Describe"
ActionLogs == "Logs"
ActionExtractField == "Extract Field"
ActionEdit == "Edit"
ActionDelete == "Delete"
ActionExec == "Exec"
ActionPortForward == "Port Forward"
ActionTop == "Top (Metrics)"

\* the zero value of Action
ZeroAction == ActionGet

\* a list of menu entries, each a title of one token
Items(titles) == [i \in 1..Len(titles) |-> <<titles[i]>>]

Str(t) == <<t>>

NoFavourite == [Name |-> <<>>, Command |-> <<>>]

-----------------------------------------------------------------------------
(* NewModel (model.go)                                                     *)

NewModel(fav, hot, hist) ==
    [ favStore |-> fav, hotkeyStore |-> hot, historyStore |-> hist,
      currentScreen |-> MainMenuScreen,
      previousScreen |-> ZeroScreen,
      selectedResource |-> ZeroResource,
      selectedAction |-> ZeroAction,
      selectedResourceName |-> <<>>,
      selectedFlags |-> <<>>,
      customNamespace |-> <<>>,
      needsNamespaceInput |-> FALSE,
      currentCommand |-> <<>>,
      defaultNamespace |-> <<>>,
      renamingFavouriteIdx |-> 0,
      currentOutputContent |-> <<>>,
      viewport |-> <<>>,
      selectedSavedOutput |-> <<>>,
      renamingSavedOutput |-> <<>>,
      renamingSavedOutputIsGroup |-> FALSE,
      selectedSavedOutputBase |-> <<>>,
      selectedSavedOutputVersionIdx |-> 0,
      savedOutputsByBase |-> EmptyMap,
      savedOutputsReturnScreen |-> ZeroScreen,
      savedOutputsReturnBase |-> <<>>,
      savedOutputsReturnVersionIdx |-> 0,
      hotkeyBindingPending |-> FALSE,
      hotkeyBindingFavourite |-> NoFavourite,
      list |-> Items(<<"Run Command", "Favourites", "Command History",
                       "Saved Outputs", "Hotkeys", "Check Cluster Connectivity",
                       "Exit">>),
      err |-> IF fav /\ hot /\ hist THEN NoErr ELSE "store unavailable" ]

-----------------------------------------------------------------------------
(* Navigation (model_navigation.go, model_favourites_hotkeys.go,           *)
(* model_contexts_namespaces.go and the saved-outputs helpers)             *)

\* the common tail of every navigateTo function
Goto(mm, screen) ==
    [mm EXCEPT !.previousScreen = mm.currentScreen, !.currentScreen = screen]

\* navigateToMainMenu with the reset of the built command left out
navigateToMainMenuKeepsCommand(mm) ==
    Goto([mm EXCEPT
            !.list = Items(<<"Run Command", "Custom Command", "Cluster Info",
                             "Favourites", "Command History", "Saved Outputs",
                             "Hotkeys", "Contexts & Namespaces",
                             "Check Cluster Connectivity", "Exit">>),
            !.selectedResource = ZeroResource,
            !.selectedAction = ZeroAction,
            !.selectedResourceName = <<>>,
            !.selectedFlags = <<>>,
            !.customNamespace = <<>>,
            !.needsNamespaceInput = FALSE,
            !.err = NoErr],
         MainMenuScreen)

navigateToMainMenu(mm) ==
    Goto([mm EXCEPT
            !.list = Items(<<"Run Command", "Custom Command", "Cluster Info",
                             "Favourites", "Command History", "Saved Outputs",
                             "Hotkeys", "Contexts & Namespaces",
                             "Check Cluster Connectivity", "Exit">>),
            !.selectedResource = ZeroResource,
            !.selectedAction = ZeroAction,
            !.selectedResourceName = <<>>,
            !.selectedFlags = <<>>,
            !.customNamespace = <<>>,
            !.needsNamespaceInput = FALSE,
            !.currentCommand = <<>>,
            !.err = NoErr],
         MainMenuScreen)

navigateToCommandHistory(mm) ==
    Goto([mm EXCEPT !.list =
            IF ~mm.historyStore THEN Items(<<"History unavailable">>)
            ELSE IF history = <<>> THEN Items(<<"No command history">>)
            ELSE history],
         CommandHistoryScreen)

navigateToCustomCommand(mm) ==
    Goto([mm EXCEPT !.currentCommand = <<>>], CustomCommandScreen)

navigateToResourceSelection(mm) ==
    Goto([mm EXCEPT
            !.selectedResource = ZeroResource,
            !.selectedAction = ZeroAction,
            !.selectedResourceName = <<>>,
            !.selectedFlags = <<>>,
            !.customNamespace = <<>>,
            !.needsNamespaceInput = FALSE,
            !.currentCommand = <<>>,
            !.list = Items(<<"Pods", "Deployments", "Services", "Nodes",
                             "ConfigMaps", "Secrets", "Ingress">>)],
         ResourceSelectionScreen)

actionItems(resource) ==
    CASE resource = ResourcePods ->
            <<"Get", "Describe", "Logs", "Exec", "Port Forward", "Edit", "Delete">>
      [] resource = ResourceDeployments ->
            <<"Get", "Describe", "Logs", "Exec", "Port Forward", "Edit", "Delete">>
      [] resource = ResourceServices ->
            <<"Get", "Describe", "Port Forward", "Edit", "Delete">>
      [] resource = ResourceNodes -> <<"Get", "Describe", "Edit", "Delete">>
      [] resource = ResourceConfigMaps -> <<"Get", "Describe", "Edit", "Delete">>
      [] resource = ResourceSecrets ->
            <<"Get", "Describe", "Extract Field", "Edit", "Delete">>
      [] resource = ResourceIngress -> <<"Get", "Describe", "Edit", "Delete">>
      [] OTHER -> <<"Get">>

navigateToActionSelection(mm) ==
    Goto([mm EXCEPT !.list = Items(actionItems(mm.selectedResource))],
         ActionSelectionScreen)

navigateToPortInput(mm) == Goto(mm, PortInputScreen)

navigateToDeleteConfirmation(mm) ==
    Goto([mm EXCEPT !.list = Items(<<"Cancel", "Confirm Delete">>)],
         DeleteConfirmationScreen)

navigateToCommandPreview(mm) ==
    Goto([mm EXCEPT !.list =
            Items(<<"Execute", "Help", "Save as Favourite", "Back">>)],
         CommandPreviewScreen)

Unchecked == "[ ] "
Checked == "[x] "
NamespaceFlag == <<"-n <namespace>">>
Done == <<"Done (Continue)">>
Separator == <<"---">>

\* the flags offered for an action, in checklist order
flagItems(action) ==
    CASE action = ActionGet ->
            <<"-o wide", "-o yaml", "-o json", "--show-labels", "-A",
              "-n <namespace>">>
      [] action = ActionDescribe -> <<"--show-events=true", "-n <namespace>">>
      [] action = ActionLogs ->
            <<"-f", "--tail=100", "--tail=50", "--since=1h", "--since=5m",
              "--previous", "-n <namespace>">>
      [] OTHER -> <<>>

\* the checklist: Done, the separator, then one unchecked entry per flag
flagsList(action) ==
    IF flagItems(action) = <<>> THEN <<>>
    ELSE <<Done, Separator>> \o
         [i \in 1..Len(flagItems(action)) |-> <<Unchecked, flagItems(action)[i]>>]

\* an entry to the flags screen that keeps the flags selected before
navigateToFlagsSelectionKeepsFlags(mm) ==
    Goto([mm EXCEPT !.list = flagsList(mm.selectedAction)], FlagsSelectionScreen)

navigateToFlagsSelection(mm) ==
    Goto([mm EXCEPT
            !.selectedFlags = <<>>,
            !.customNamespace = <<>>,
            !.needsNamespaceInput = FALSE,
            !.list = flagsList(mm.selectedAction)],
         FlagsSelectionScreen)

\* a Done that skips the namespace prompt
navigateToNamespaceInputSkipped(mm) == Goto(mm, CommandPreviewScreen)

navigateToNamespaceInput(mm) == Goto(mm, NamespaceInputScreen)

navigateToSaveFavourite(mm) == Goto(mm, SaveFavouriteScreen)

\* Store.Get of the favourites store, for a 0-based index
favGet(idx) == idx >= 0 /\ idx < Len(favourites)

navigateToRenameFavourite(mm, idx) ==
    IF ~mm.favStore \/ ~favGet(idx) THEN mm
    ELSE Goto([mm EXCEPT !.renamingFavouriteIdx = idx], RenameFavouriteScreen)

navigateToClusterInfo(mm) ==
    Goto([mm EXCEPT !.viewport = <<"Loading cluster information...">>],
         ClusterInfoScreen)

HotkeyKeys == <<"F1", "F2", "F3", "F4", "F5", "F6", "F7", "F8", "F9", "F10",
                "F11", "F12">>

navigateToHotkeysList(mm) ==
    Goto([mm EXCEPT !.list =
            IF ~mm.hotkeyStore THEN Items(<<"Hotkeys unavailable">>)
            ELSE Items(HotkeyKeys)],
         HotkeysListScreen)

navigateToFavouritesList(mm) ==
    IF ~mm.favStore
    THEN navigateToMainMenu([mm EXCEPT !.err = "favourites store not available"])
    ELSE Goto([mm EXCEPT !.list =
                 IF favourites = <<>> THEN Items(<<"No favourites saved">>)
                 ELSE [i \in 1..Len(favourites) |-> favourites[i].Name]],
              FavouritesListScreen)

navigateToContextsAndNamespacesMenu(mm) ==
    Goto([mm EXCEPT !.list =
            Items(<<"Switch Context", "Set Default Namespace",
                    "Back to Main Menu">>)],
         ContextsNamespacesMenuScreen)

navigateToSaveOutputName(mm) == Goto(mm, SaveOutputNameScreen)

navigateToSavedOutputsList(mm) ==
    Goto([mm EXCEPT !.list = Items(<<"Loading...">>)], SavedOutputsListScreen)

\* the group names in sort.Strings order; the model lists them in the order
\* of SeqOf, every choice among the entries being offered to the user anyway
navigateToSavedOutputsGroups(mm) ==
    Goto([mm EXCEPT !.list =
            IF DOMAIN mm.savedOutputsByBase = {}
            THEN Items(<<"No saved outputs">>)
            ELSE SeqOf(DOMAIN mm.savedOutputsByBase)],
         SavedOutputsListScreen)

versionsOf(mm, base) ==
    IF base \in DOMAIN mm.savedOutputsByBase
    THEN mm.savedOutputsByBase[base] ELSE <<>>

\* an entry to the versions screen that keeps the version index as it is
navigateToSavedOutputVersionsUnclamped(mm, base) ==
    Goto([mm EXCEPT
            !.selectedSavedOutputBase = base,
            !.list = IF Len(versionsOf(mm, base)) = 0 THEN Items(<<"No versions">>)
                     ELSE versionsOf(mm, base)],
         SavedOutputVersionsScreen)

navigateToSavedOutputVersions(mm, base) ==
    LET versions == versionsOf(mm, base)
        idx0 == IF mm.selectedSavedOutputVersionIdx < 0
                THEN 0 ELSE mm.selectedSavedOutputVersionIdx
        idx == IF Len(versions) > 0
               THEN (IF idx0 >= Len(versions) THEN Len(versions) - 1 ELSE idx0)
               ELSE 0
    IN  Goto([mm EXCEPT
                !.selectedSavedOutputBase = base,
                !.selectedSavedOutputVersionIdx = idx,
                !.list = IF Len(versions) = 0 THEN Items(<<"No versions">>)
                         ELSE versions],
             SavedOutputVersionsScreen)

navigateToSavedOutputView(mm, filename, content) ==
    Goto([mm EXCEPT
            !.selectedSavedOutput = filename,
            !.viewport = content,
            !.currentOutputContent = content],
         SavedOutputViewScreen)

navigateToCommandOutput(mm) == [mm EXCEPT !.currentScreen = CommandOutputScreen]

navigateToRenameSavedOutputGroup(mm, base) ==
    Goto([mm EXCEPT
            !.renamingSavedOutput = base,
            !.renamingSavedOutputIsGroup = TRUE],
         RenameSavedOutputScreen)

\* the row of navigateBack for the flags screen, sent to the name list instead
backFromFlagsToNames(mm) == Goto(mm, ResourceNameSelectionScreen)

\* the row of navigateBack for the flags screen, sent on to the preview
backFromFlagsToPreview(mm) == Goto(mm, CommandPreviewScreen)

\* the row of navigateBack for the flags screen
backFromFlags(mm) == navigateToActionSelection(mm)

navigateBack(mm) ==
    CASE mm.currentScreen = ResourceSelectionScreen -> navigateToMainMenu(mm)
      [] mm.currentScreen = ActionSelectionScreen -> navigateToResourceSelection(mm)
      [] mm.currentScreen = ResourceNameSelectionScreen ->
            navigateToActionSelection(mm)
      [] mm.currentScreen = FlagsSelectionScreen -> backFromFlags(mm)
      [] mm.currentScreen = CommandPreviewScreen -> navigateToFlagsSelection(mm)
      [] mm.currentScreen = CommandHelpScreen -> navigateToCommandPreview(mm)
      [] mm.currentScreen = ClusterInfoScreen -> navigateToMainMenu(mm)
      [] mm.currentScreen = ClusterConnectivityScreen -> navigateToMainMenu(mm)
      [] mm.currentScreen = CommandHistoryScreen -> navigateToMainMenu(mm)
      [] mm.currentScreen = HotkeysListScreen -> navigateToMainMenu(mm)
      [] mm.currentScreen = HotkeyBindScreen ->
            navigateToFavouritesList([mm EXCEPT !.hotkeyBindingPending = FALSE])
      [] mm.currentScreen = FavouritesListScreen -> navigateToMainMenu(mm)
      [] mm.currentScreen = SaveFavouriteScreen -> navigateToCommandPreview(mm)
      [] mm.currentScreen = RenameFavouriteScreen -> navigateToFavouritesList(mm)
      [] mm.currentScreen = SecretFieldSelectionScreen ->
            navigateToActionSelection(mm)
      [] mm.currentScreen = NamespaceInputScreen -> navigateToFlagsSelection(mm)
      [] mm.currentScreen = SavedOutputsListScreen -> navigateToMainMenu(mm)
      [] mm.currentScreen = SavedOutputVersionsScreen ->
            navigateToSavedOutputsGroups(mm)
      [] mm.currentScreen = SavedOutputViewScreen ->
            IF /\ mm.previousScreen = SavedOutputVersionsScreen
               /\ mm.selectedSavedOutputBase # <<>>
            THEN navigateToSavedOutputVersions(mm, mm.selectedSavedOutputBase)
            ELSE navigateToSavedOutputsGroups(mm)
      [] mm.currentScreen = RenameSavedOutputScreen ->
            IF mm.renamingSavedOutputIsGroup
            THEN navigateToSavedOutputVersions(mm, mm.renamingSavedOutput)
            ELSE navigateToSavedOutputsGroups(mm)
      [] mm.currentScreen = SaveOutputNameScreen -> navigateToCommandOutput(mm)
      [] mm.currentScreen = ContextsNamespacesMenuScreen -> navigateToMainMenu(mm)
      [] mm.currentScreen = ContextsListScreen ->
            navigateToContextsAndNamespacesMenu(mm)
      [] mm.currentScreen = NamespacesListScreen ->
            navigateToContextsAndNamespacesMenu(mm)
      [] mm.currentScreen = PortInputScreen -> navigateToActionSelection(mm)
      [] OTHER -> navigateToMainMenu(mm)

-----------------------------------------------------------------------------
(* Command construction (navigation.go)                                    *)

getResourceShortName(r) ==
    CASE r = ResourcePods -> <<"pod">>
      [] r = ResourceDeployments -> <<"deployment">>
      [] r = ResourceServices -> <<"service">>
      [] r = ResourceNodes -> <<"node">>
      [] r = ResourceConfigMaps -> <<"configmap">>
      [] r = ResourceSecrets -> <<"secret">>
      [] r = ResourceIngress -> <<"ingress">>
      [] OTHER -> <<>>

\* a Get template that names the kind in the singular
getTemplateSingular(resource) == <<"get", " ">> \o getResourceShortName(resource)

\* "get pods", "get deployments", ...
getTemplate(resource) ==
    CASE resource = ResourcePods -> <<"get", " ", "pods">>
      [] resource = ResourceDeployments -> <<"get", " ", "deployments">>
      [] resource = ResourceServices -> <<"get", " ", "services">>
      [] resource = ResourceNodes -> <<"get", " ", "nodes">>
      [] resource = ResourceConfigMaps -> <<"get", " ", "configmaps">>
      [] resource = ResourceSecrets -> <<"get", " ", "secrets">>
      [] resource = ResourceIngress -> <<"get", " ", "ingress">>
      [] OTHER -> <<"get">>

\* flags put in front of the command
appendFlagsInFront(cmd, flags) ==
    IF flags = <<>> THEN cmd ELSE Head(flags) \o <<" ">> \o cmd

\* only the last flag of the list is appended
appendFlagsLastOnly(cmd, flags) ==
    IF flags = <<>> THEN cmd ELSE cmd \o <<" ">> \o flags[Len(flags)]

RECURSIVE appendFlags(_, _)
appendFlags(cmd, flags) ==
    IF flags = <<>> THEN cmd
    ELSE appendFlags(IF Head(flags) # <<>> THEN cmd \o <<" ">> \o Head(flags)
                     ELSE cmd,
                     Tail(flags))

buildCommand(resource, action, resourceName, flags) ==
    LET sub ==
          CASE action = ActionGet -> getTemplate(resource)
            [] action = ActionDescribe ->
                  <<"describe", " ">> \o getResourceShortName(resource)
                      \o <<" ">> \o resourceName
            [] action = ActionLogs ->
                  IF resource = ResourceDeployments
                  THEN <<"logs", " ", "deployment/">> \o resourceName
                  ELSE <<"logs", " ">> \o resourceName
            [] action = ActionExtractField ->
                  IF resource = ResourceSecrets
                  THEN <<"get", " ", "secret", " ">> \o resourceName
                           \o <<" ", "-o go-template">>
                  ELSE <<>>
            [] action = ActionEdit ->
                  <<"edit", " ">> \o getResourceShortName(resource)
                      \o <<" ">> \o resourceName
            [] action = ActionDelete ->
                  <<"delete", " ">> \o getResourceShortName(resource)
                      \o <<" ">> \o resourceName
            [] action = ActionExec ->
                  IF resource = ResourcePods
                  THEN <<"exec", " ", "-it", " ">> \o resourceName
                           \o <<" ", "--", " ", "/bin/sh">>
                  ELSE IF resource = ResourceDeployments
                  THEN <<"exec", " ", "-it", " ", "deployment/">> \o resourceName
                           \o <<" ", "--", " ", "/bin/sh">>
                  ELSE <<>>
            [] action = ActionPortForward ->
                  IF resource = ResourcePods
                  THEN <<"port-forward", " ", "pod/">> \o resourceName
                  ELSE IF resource = ResourceServices
                  THEN <<"port-forward", " ", "svc/">> \o resourceName
                  ELSE IF resource = ResourceDeployments
                  THEN <<"port-forward", " ", "deployment/">> \o resourceName
                  ELSE <<>>
            [] action = ActionTop ->
                  IF resource = ResourcePods THEN <<"top", " ", "pod">>
                  ELSE IF resource = ResourceNodes THEN <<"top", " ", "node">>
                  ELSE <<"top", " ">> \o getResourceShortName(resource)
            [] OTHER -> <<>>
    IN  appendFlags(<<"kubectl", " ">> \o sub, flags)

-----------------------------------------------------------------------------
(* Deferred tasks (tea.Cmd) and what Update returns                        *)

\* a tea.Cmd: the function started and the Model fields its closure reads
Cmd(kind, args) == [kind |-> kind, args |-> args]

NoCmd == Cmd("nil", <<>>)
QuitCmd == Cmd("tea.Quit", <<>>)

\* (tea.Model, tea.Cmd) as Update returns it, with the stores Update wrote
R(mm, cmd) == [m |-> mm, cmd |-> cmd, bindings |-> bindings, index |-> index]

executeCommand(mm) == Cmd("executeCommand", <<mm.historyStore, mm.currentCommand>>)
loadCommandHelp(mm) == Cmd("loadCommandHelp", <<mm.currentCommand>>)
checkClusterConnectivity(mm) == Cmd("checkClusterConnectivity", <<>>)
loadClusterInfo(mm) == Cmd("loadClusterInfo", <<>>)
fetchPodNames(mm) == Cmd("fetchPodNames", <<>>)
fetchResourceNames(mm) == Cmd("fetchResourceNames", <<mm.selectedResource>>)
fetchSecretKeys(mm) == Cmd("fetchSecretKeys", <<mm.selectedResourceName>>)
switchContext(mm, name) == Cmd("switchContext", <<name>>)
saveFavourite(mm, fav) == Cmd("saveFavourite", <<fav>>)
deleteFavourite(mm, idx) == Cmd("deleteFavourite", <<idx>>)
renameFavourite(mm, idx, newName) == Cmd("renameFavourite", <<idx, newName>>)
saveOutputCmd(mm, name) ==
    Cmd("saveOutput", <<name, mm.currentOutputContent, mm.currentCommand>>)
deleteSavedOutputCmd(mm, filename) == Cmd("deleteSavedOutput", <<filename>>)
deleteSavedOutputGroupCmd(mm, base) == Cmd("deleteSavedOutputGroup", <<base>>)
renameSavedOutputGroupCmd(mm, oldBase, newBase) ==
    Cmd("renameSavedOutputGroup", <<oldBase, newBase>>)
renameSavedOutputCmd(mm, oldName, newName) ==
    Cmd("renameSavedOutput", <<oldName, newName>>)
loadSavedOutputsTask(mm) == Cmd("loadSavedOutputsCmd", <<>>)

loadSavedOutputs(mm) == R(navigateToSavedOutputsList(mm), loadSavedOutputsTask(mm))

loadSavedOutputsToVersions(mm, base) ==
    loadSavedOutputs([mm EXCEPT
        !.savedOutputsReturnScreen = SavedOutputVersionsScreen,
        !.savedOutputsReturnBase = base])

-----------------------------------------------------------------------------
(* Selection handlers (model_favourites_hotkeys.go)                        *)

\* m.list.SelectedItem(): the title under the cursor, <<>> standing for nil
SelectedItem(mm, i) == IF i \in 1..Len(mm.list) THEN mm.list[i] ELSE <<>>

isTextInputScreen(mm) ==
    mm.currentScreen \in {SaveFavouriteScreen, RenameFavouriteScreen,
                          RenameSavedOutputScreen, NamespaceInputScreen,
                          SaveOutputNameScreen}

handleMainMenuSelection(mm, i) ==
    LET title == SelectedItem(mm, i)
    IN  CASE title = <<"Run Command">> -> R(navigateToResourceSelection(mm), NoCmd)
          [] title = <<"Custom Command">> -> R(navigateToCustomCommand(mm), NoCmd)
          [] title = <<"Cluster Info">> ->
                R(navigateToClusterInfo(mm), loadClusterInfo(mm))
          [] title = <<"Favourites">> -> R(navigateToFavouritesList(mm), NoCmd)
          [] title = <<"Command History">> -> R(navigateToCommandHistory(mm), NoCmd)
          [] title = <<"Saved Outputs">> -> loadSavedOutputs(mm)
          [] title = <<"Hotkeys">> -> R(navigateToHotkeysList(mm), NoCmd)
          [] title = <<"Contexts & Namespaces">> ->
                R(navigateToContextsAndNamespacesMenu(mm), NoCmd)
          [] title = <<"Check Cluster Connectivity">> ->
                R(mm, checkClusterConnectivity(mm))
          [] title = <<"Exit">> -> R(mm, QuitCmd)
          [] OTHER -> R(mm, NoCmd)

Resources == {ResourcePods, ResourceDeployments, ResourceServices, ResourceNodes,
              ResourceConfigMaps, ResourceSecrets, ResourceIngress}

handleResourceSelection(mm, i) ==
    LET title == SelectedItem(mm, i)
    IN  IF Len(title) = 1 /\ title[1] \in Resources
        THEN R(navigateToActionSelection([mm EXCEPT !.selectedResource = title[1]]),
               NoCmd)
        ELSE R(mm, NoCmd)

handleActionSelection(mm, i) ==
    LET title == SelectedItem(mm, i)
        picked(a) == [mm EXCEPT !.selectedAction = a]
    IN  CASE title = <<"Get">> ->
                R(navigateToFlagsSelection(picked(ActionGet)), NoCmd)
          [] title = <<"Describe">> ->
                R(picked(ActionDescribe), fetchResourceNames(picked(ActionDescribe)))
          [] title = <<"Logs">> ->
                IF mm.selectedResource = ResourcePods
                THEN R(picked(ActionLogs), fetchPodNames(picked(ActionLogs)))
                ELSE R(picked(ActionLogs), fetchResourceNames(picked(ActionLogs)))
          [] title = <<"Extract Field">> ->
                R(picked(ActionExtractField),
                  fetchResourceNames(picked(ActionExtractField)))
          [] title = <<"Edit">> ->
                R(picked(ActionEdit), fetchResourceNames(picked(ActionEdit)))
          [] title = <<"Delete">> ->
                R(picked(ActionDelete), fetchResourceNames(picked(ActionDelete)))
          [] title = <<"Exec">> ->
                R(picked(ActionExec), fetchResourceNames(picked(ActionExec)))
          [] title = <<"Port Forward">> ->
                R(picked(ActionPortForward),
                  fetchResourceNames(picked(ActionPortForward)))
          [] title = <<"Top (Metrics)">> ->
                R(navigateToFlagsSelection(picked(ActionTop)), NoCmd)
          [] OTHER -> R(mm, NoCmd)

handleResourceNameSelection(mm, i) ==
    LET title == SelectedItem(mm, i)
        named == [mm EXCEPT !.selectedResourceName = title]
    IN  IF i \notin 1..Len(mm.list) THEN R(mm, NoCmd)
        ELSE IF mm.selectedAction = ActionExtractField
        THEN R(named, fetchSecretKeys(named))
        ELSE IF mm.selectedAction = ActionDelete
        THEN R(navigateToDeleteConfirmation(named), NoCmd)
        ELSE IF mm.selectedAction = ActionPortForward
        THEN R(navigateToPortInput(named), NoCmd)
        ELSE R(navigateToFlagsSelection(named), NoCmd)

hasExplicitNamespaceFlag(mm) ==
    \E k \in 1..Len(mm.selectedFlags) :
        LET f == mm.selectedFlags[k]
        IN  \/ f = <<"-A">>
            \/ HasPrefix(f, <<"-n", " ">>)
            \/ HasPrefix(f, <<"-n", "=">>)

\* the list with the entry under the cursor retitled
SetItem(mm, i, title) ==
    IF i \in 1..Len(mm.list) THEN [mm EXCEPT !.list[i] = title] ELSE mm

\* the position of the first element of seq equal to x, 0 if none
IndexOf(seq, x) ==
    IF \E k \in 1..Len(seq) : seq[k] = x
    THEN CHOOSE k \in 1..Len(seq) :
            seq[k] = x /\ \A j \in 1..(k - 1) : seq[j] # x
    ELSE 0

\* seq without its k-th element
RemoveAt(seq, k) == [j \in 1..(Len(seq) - 1) |-> IF j < k THEN seq[j] ELSE seq[j + 1]]

\* a search that takes the first flag whatever it is
FirstDashNAnyFlag(flags) == IF Len(flags) > 0 THEN 1 ELSE 0

\* the position of the first flag that starts with "-n", 0 if none
FirstDashN(flags) ==
    IF \E k \in 1..Len(flags) : Len(flags[k]) >= 1 /\ flags[k][1] = "-n"
    THEN CHOOSE k \in 1..Len(flags) :
            /\ Len(flags[k]) >= 1 /\ flags[k][1] = "-n"
            /\ \A j \in 1..(k - 1) : ~(Len(flags[j]) >= 1 /\ flags[j][1] = "-n")
    ELSE 0

\* a toggle that puts a new flag in front of the others
toggleGenericAtFront(flags, flag) ==
    IF \E k \in 1..Len(flags) : flags[k] = flag
    THEN SelectSeq(flags, LAMBDA f : f # flag)
    ELSE <<flag>> \o flags

\* a toggle that only ever adds the flag
toggleGenericOnlyAdds(flags, flag) == Append(flags, flag)

\* the toggle of a generic flag on the selected-flag list
toggleGeneric(flags, flag) ==
    IF IndexOf(flags, flag) > 0
    THEN RemoveAt(flags, IndexOf(flags, flag))
    ELSE Append(flags, flag)

\* a toggle that takes every entry of the checklist for a flag
toggleFlagAnyEntry(mm, i) ==
    IF i \notin 1..Len(mm.list) THEN mm
    ELSE [mm EXCEPT !.selectedFlags = toggleGeneric(mm.selectedFlags, SelectedItem(mm, i))]

toggleFlag(mm, i) ==
    LET title == SelectedItem(mm, i)
        \* title[4:], the text after the check box
        flag == IF Len(title) = 2 THEN <<title[2]>> ELSE <<>>
    IN  IF i \notin 1..Len(mm.list) \/ title = Done \/ title = Separator THEN mm
        ELSE IF flag = NamespaceFlag
        THEN IF mm.needsNamespaceInput
             THEN SetItem([mm EXCEPT
                             !.needsNamespaceInput = FALSE,
                             !.customNamespace = <<>>,
                             !.selectedFlags =
                                 IF FirstDashN(mm.selectedFlags) > 0
                                 THEN RemoveAt(mm.selectedFlags,
                                               FirstDashN(mm.selectedFlags))
                                 ELSE mm.selectedFlags],
                          i, <<Unchecked>> \o NamespaceFlag)
             ELSE SetItem([mm EXCEPT !.needsNamespaceInput = TRUE],
                          i, <<Checked>> \o NamespaceFlag)
        ELSE SetItem([mm EXCEPT !.selectedFlags = toggleGeneric(mm.selectedFlags, flag)],
                     i,
                     IF IndexOf(mm.selectedFlags, flag) > 0
                     THEN <<Unchecked>> \o flag ELSE <<Checked>> \o flag)

handleFlagsSelection(mm, i) ==
    LET title == SelectedItem(mm, i)
        withDefault ==
            IF mm.defaultNamespace # <<>> /\ ~hasExplicitNamespaceFlag(mm)
            THEN [mm EXCEPT !.selectedFlags =
                     Append(mm.selectedFlags, <<"-n", " ">> \o mm.defaultNamespace)]
            ELSE mm
    IN  IF i \notin 1..Len(mm.list) THEN R(mm, NoCmd)
        ELSE IF title = Done
        THEN IF mm.needsNamespaceInput
             THEN R(navigateToNamespaceInput(mm), NoCmd)
             ELSE R(navigateToCommandPreview(
                        [withDefault EXCEPT !.currentCommand =
                            buildCommand(withDefault.selectedResource,
                                         withDefault.selectedAction,
                                         withDefault.selectedResourceName,
                                         withDefault.selectedFlags)]),
                    NoCmd)
        ELSE IF title = Separator THEN R(mm, NoCmd)
        ELSE R(toggleFlag(mm, i), NoCmd)

handleCommandPreviewSelection(mm, i) ==
    LET title == SelectedItem(mm, i)
    IN  CASE title = <<"Execute">> -> R(mm, executeCommand(mm))
          [] title = <<"Help">> -> R(mm, loadCommandHelp(mm))
          [] title = <<"Save as Favourite">> -> R(navigateToSaveFavourite(mm), NoCmd)
          [] title = <<"Back">> -> R(navigateBack(mm), NoCmd)
          [] OTHER -> R(mm, NoCmd)

\* Store.Get of the history store, for the 0-based cursor index
historyGet(idx) == idx >= 0 /\ idx < Len(history)

\* m.list.Index(), 0-based
Index(mm, i) == IF i \in 1..Len(mm.list) THEN i - 1 ELSE 0

handleCommandHistorySelection(mm, i) ==
    IF ~mm.historyStore \/ ~historyGet(Index(mm, i)) THEN R(mm, NoCmd)
    ELSE LET run == [mm EXCEPT !.currentCommand = history[Index(mm, i) + 1]]
         IN  R(run, executeCommand(run))

handleFavouriteSelection(mm, i) ==
    IF ~mm.favStore \/ ~favGet(Index(mm, i)) THEN R(mm, NoCmd)
    ELSE LET run == [mm EXCEPT !.currentCommand =
                        favourites[Index(mm, i) + 1].Command]
         IN  R(run, executeCommand(run))

handleSaveFavourite(mm, text) ==
    IF text = <<>> THEN R(mm, NoCmd)
    ELSE IF ~mm.favStore
    THEN R(navigateToMainMenu([mm EXCEPT !.err = "favourites store not available"]),
           NoCmd)
    ELSE R(mm, saveFavourite(mm, [Name |-> text, Command |-> mm.currentCommand]))

handleRenameFavourite(mm, text) ==
    IF text = <<>> THEN R(mm, NoCmd)
    ELSE IF ~mm.favStore
    THEN R(navigateToMainMenu([mm EXCEPT !.err = "favourites store not available"]),
           NoCmd)
    ELSE R(mm, renameFavourite(mm, mm.renamingFavouriteIdx, text))

handleRenameSavedOutput(mm, text) ==
    LET newName == TrimSuffix(TrimSpace(text), Txt)
    IN  IF TrimSpace(text) = <<>> THEN R(mm, NoCmd)
        ELSE IF mm.renamingSavedOutputIsGroup
        THEN R([mm EXCEPT
                   !.savedOutputsReturnScreen = SavedOutputVersionsScreen,
                   !.savedOutputsReturnBase = newName],
               renameSavedOutputGroupCmd(mm, mm.renamingSavedOutput, newName))
        ELSE R(mm, renameSavedOutputCmd(mm, mm.renamingSavedOutput, newName))

handleNamespaceInput(mm, text) ==
    IF text = <<>> THEN R(mm, NoCmd)
    ELSE LET flags == Append(mm.selectedFlags, <<"-n", " ">> \o text)
         IN  R(navigateToCommandPreview(
                   [mm EXCEPT
                      !.customNamespace = text,
                      !.selectedFlags = flags,
                      !.currentCommand =
                          buildCommand(mm.selectedResource, mm.selectedAction,
                                       mm.selectedResourceName, flags)]),
               NoCmd)

\* the list of fields offered for a secret
navigateToSecretFieldSelection(mm, keys) ==
    Goto([mm EXCEPT !.list = <<<<"Custom JSONPath">>, Separator>> \o keys],
         SecretFieldSelectionScreen)

\* the go-template that extracts the field a title names
templateStr(title) ==
    IF HasPrefix(title, <<"data.">>)
    THEN <<"{{index .data \"">> \o Tail(title) \o <<"\" | base64decode}}">>
    ELSE IF HasPrefix(title, <<"stringData.">>)
    THEN <<"{{index .stringData \"">> \o Tail(title) \o <<"\"}}">>
    ELSE IF HasPrefix(title, <<"metadata.labels.">>)
    THEN <<"{{index .metadata.labels \"">> \o Tail(title) \o <<"\"}}">>
    ELSE IF HasPrefix(title, <<"metadata.annotations.">>)
    THEN <<"{{index .metadata.annotations \"">> \o Tail(title) \o <<"\"}}">>
    ELSE IF title = <<"metadata.name">> THEN <<"{{.metadata.name}}">>
    ELSE IF title = <<"metadata.namespace">> THEN <<"{{.metadata.namespace}}">>
    ELSE IF title = <<"metadata.type">> THEN <<"{{.type}}">>
    ELSE <<"{{index .data \"">> \o title \o <<"\" | base64decode}}">>

handleSecretFieldSelection(mm, i) ==
    LET title == SelectedItem(mm, i)
        extract == <<"kubectl", " ", "get", " ", "secret", " ">>
                       \o mm.selectedResourceName
                       \o <<" ", "-o go-template='">> \o templateStr(title) \o <<"'">>
        command ==
            IF mm.customNamespace # <<>>
            THEN extract \o <<" ", "-n", " ">> \o mm.customNamespace
            ELSE IF mm.defaultNamespace # <<>> /\ ~hasExplicitNamespaceFlag(mm)
            THEN extract \o <<" ", "-n", " ">> \o mm.defaultNamespace
            ELSE extract
    IN  IF i \notin 1..Len(mm.list) THEN R(mm, NoCmd)
        ELSE IF title = <<"Custom JSONPath">> THEN R(navigateToCustomCommand(mm), NoCmd)
        ELSE IF title = Separator THEN R(mm, NoCmd)
        ELSE R(navigateToCommandPreview([mm EXCEPT !.currentCommand = command]),
               NoCmd)

handleDeleteConfirmationSelection(mm, i) ==
    LET title == SelectedItem(mm, i)
        run == [mm EXCEPT !.currentCommand =
                   buildCommand(mm.selectedResource, mm.selectedAction,
                                mm.selectedResourceName, mm.selectedFlags)]
    IN  IF i \notin 1..Len(mm.list) THEN R(mm, NoCmd)
        ELSE IF title = <<"Confirm Delete">> THEN R(run, executeCommand(run))
        ELSE R(mm, fetchResourceNames(mm))

handlePortInput(mm, ports) ==
    IF ports = <<>> THEN R(mm, NoCmd)
    ELSE R(navigateToCommandPreview(
               [mm EXCEPT !.currentCommand =
                   buildCommand(mm.selectedResource, mm.selectedAction,
                                mm.selectedResourceName, mm.selectedFlags)
                       \o <<" ">> \o ports]),
           NoCmd)

handleCustomCommandInput(mm, text) ==
    LET input == TrimSpace(text)
    IN  IF input = <<>> THEN R(mm, NoCmd)
        ELSE R(navigateToCommandPreview(
                   [mm EXCEPT !.currentCommand =
                       IF HasPrefix(input, <<"kubectl", " ">>) THEN input
                       ELSE <<"kubectl", " ">> \o input]),
               NoCmd)

\* a prompt that takes the empty name as well
handleSaveOutputNameAnyText(mm, text) == R(mm, saveOutputCmd(mm, text))

handleSaveOutputName(mm, text) ==
    IF text = <<>> THEN R(mm, NoCmd) ELSE R(mm, saveOutputCmd(mm, text))

handleSavedOutputSelection(mm, i) ==
    LET title == SelectedItem(mm, i)
    IN  IF \/ i \notin 1..Len(mm.list)
           \/ title = <<"No saved outputs">> \/ title = <<"Loading...">>
        THEN R(mm, NoCmd)
        ELSE R(navigateToSavedOutputVersions(mm, title), NoCmd)

\* the version under the version cursor, clamped as the handlers clamp it
clampedIdx(mm) ==
    LET versions == versionsOf(mm, mm.selectedSavedOutputBase)
        idx == mm.selectedSavedOutputVersionIdx
    IN  IF idx < 0 THEN 0
        ELSE IF idx >= Len(versions) THEN Len(versions) - 1 ELSE idx

viewSavedOutput(mm, filename) ==
    IF filename \notin DOMAIN files
    THEN R([mm EXCEPT !.err = "no such file"], NoCmd)
    ELSE R(navigateToSavedOutputView(mm, filename, files[filename]), NoCmd)

handleSavedOutputVersionSelection(mm) ==
    LET versions == versionsOf(mm, mm.selectedSavedOutputBase)
    IN  IF Len(versions) = 0 THEN R(mm, NoCmd)
        ELSE viewSavedOutput(mm, versions[clampedIdx(mm) + 1])

-----------------------------------------------------------------------------
(* Contexts and namespaces (model_contexts_namespaces.go)                  *)

ContextNames == <<<<"ctx1">>>>
NamespaceNames == <<<<"dev">>>>

\* env is what kubectl answers: "ok", "empty" or "fail"
navigateToContextsList(mm, env) ==
    Goto(CASE env = "fail" ->
                [mm EXCEPT !.err = "kubectl error",
                           !.list = Items(<<"Unable to load contexts">>)]
           [] env = "empty" -> [mm EXCEPT !.list = Items(<<"No contexts found">>)]
           [] OTHER -> [mm EXCEPT !.list = ContextNames],
         ContextsListScreen)

navigateToNamespacesList(mm, env) ==
    Goto(CASE env = "fail" ->
                [mm EXCEPT !.err = "kubectl error",
                           !.list = Items(<<"Unable to load namespaces">>)]
           [] env = "empty" -> [mm EXCEPT !.list = Items(<<"No namespaces found">>)]
           [] OTHER -> [mm EXCEPT !.list = NamespaceNames],
         NamespacesListScreen)

handleContextsAndNamespacesMenuSelection(mm, i, env) ==
    LET title == SelectedItem(mm, i)
    IN  CASE title = <<"Switch Context">> -> R(navigateToContextsList(mm, env), NoCmd)
          [] title = <<"Set Default Namespace">> ->
                R(navigateToNamespacesList(mm, env), NoCmd)
          [] title = <<"Back to Main Menu">> -> R(navigateToMainMenu(mm), NoCmd)
          [] OTHER -> R(mm, NoCmd)

handleContextSelection(mm, i) ==
    LET title == SelectedItem(mm, i)
    IN  IF \/ i \notin 1..Len(mm.list)
           \/ title = <<"Unable to load contexts">> \/ title = <<"No contexts found">>
        THEN R(mm, NoCmd)
        ELSE R(mm, switchContext(mm, title))

handleNamespaceSelection(mm, i) ==
    LET title == SelectedItem(mm, i)
    IN  IF \/ i \notin 1..Len(mm.list)
           \/ title = <<"Unable to load namespaces">>
           \/ title = <<"No namespaces found">>
        THEN R(mm, NoCmd)
        ELSE R(navigateToContextsAndNamespacesMenu(
                   [mm EXCEPT !.defaultNamespace = title,
                              !.err = "ok: Default namespace set"]),
               NoCmd)

-----------------------------------------------------------------------------
(* Update (model_update.go)                                                *)

\* what the user and the environment supply to one key press: the list
\* cursor, the text in the input field, and the answer of kubectl or the disk
In(i, text, env) == [i |-> i, text |-> text, env |-> env]

handleEnterKey(mm, in) ==
    CASE mm.currentScreen = MainMenuScreen -> handleMainMenuSelection(mm, in.i)
      [] mm.currentScreen = ResourceSelectionScreen -> handleResourceSelection(mm, in.i)
      [] mm.currentScreen = ActionSelectionScreen -> handleActionSelection(mm, in.i)
      [] mm.currentScreen = ResourceNameSelectionScreen ->
            handleResourceNameSelection(mm, in.i)
      [] mm.currentScreen = FlagsSelectionScreen -> handleFlagsSelection(mm, in.i)
      [] mm.currentScreen = CommandPreviewScreen ->
            handleCommandPreviewSelection(mm, in.i)
      [] mm.currentScreen = FavouritesListScreen -> handleFavouriteSelection(mm, in.i)
      [] mm.currentScreen = SaveFavouriteScreen -> handleSaveFavourite(mm, in.text)
      [] mm.currentScreen = RenameFavouriteScreen -> handleRenameFavourite(mm, in.text)
      [] mm.currentScreen = RenameSavedOutputScreen ->
            handleRenameSavedOutput(mm, in.text)
      [] mm.currentScreen = NamespaceInputScreen -> handleNamespaceInput(mm, in.text)
      [] mm.currentScreen = SavedOutputsListScreen ->
            handleSavedOutputSelection(mm, in.i)
      [] mm.currentScreen = SavedOutputVersionsScreen ->
            handleSavedOutputVersionSelection(mm)
      [] mm.currentScreen = SaveOutputNameScreen -> handleSaveOutputName(mm, in.text)
      [] mm.currentScreen = CommandHistoryScreen ->
            handleCommandHistorySelection(mm, in.i)
      [] mm.currentScreen = ContextsNamespacesMenuScreen ->
            handleContextsAndNamespacesMenuSelection(mm, in.i, in.env)
      [] mm.currentScreen = ContextsListScreen -> handleContextSelection(mm, in.i)
      [] mm.currentScreen = NamespacesListScreen -> handleNamespaceSelection(mm, in.i)
      [] mm.currentScreen = CustomCommandScreen ->
            handleCustomCommandInput(mm, in.text)
      [] OTHER -> R(mm, NoCmd)

\* the F1-F12 branch at the head of handleKeyPress; hk is the parsed key
handleHotkey(mm, hk, in) ==
    IF mm.hotkeyBindingPending
    THEN [R(navigateToFavouritesList(
               [mm EXCEPT !.err = IF in.env = "fail" THEN "save failed"
                                  ELSE "ok: Bound hotkey",
                          !.hotkeyBindingPending = FALSE]),
            NoCmd)
          EXCEPT !.bindings = Put(bindings, hk,
                                  [Name |-> mm.hotkeyBindingFavourite.Name,
                                   Command |-> mm.hotkeyBindingFavourite.Command])]
    ELSE LET run == [mm EXCEPT !.currentCommand = bindings[hk].Command]
         IN  R(run, executeCommand(run))

\* a quit key that ends the program on every screen
handleQuitKeyAnywhere(mm) == R(mm, QuitCmd)

handleQuitKey(mm) ==
    IF mm.currentScreen = MainMenuScreen THEN R(mm, QuitCmd)
    ELSE R(navigateToMainMenu(mm), NoCmd)

handleEscKey(mm) ==
    IF mm.currentScreen = HotkeyBindScreen
    THEN R(navigateToFavouritesList([mm EXCEPT !.hotkeyBindingPending = FALSE]),
           NoCmd)
    ELSE IF mm.currentScreen = RenameSavedOutputScreen
    THEN IF mm.renamingSavedOutputIsGroup
         THEN loadSavedOutputsToVersions(mm, mm.renamingSavedOutput)
         ELSE loadSavedOutputs(mm)
    ELSE R(navigateBack(mm), NoCmd)

handleSpaceKey(mm, in) ==
    IF mm.currentScreen = FlagsSelectionScreen
    THEN R(toggleFlag(mm, in.i), NoCmd)
    ELSE R(mm, NoCmd)

handleLeftKey(mm) ==
    LET versions == versionsOf(mm, mm.selectedSavedOutputBase)
    IN  IF mm.currentScreen # SavedOutputVersionsScreen \/ Len(versions) = 0
        THEN R(mm, NoCmd)
        ELSE R([mm EXCEPT !.selectedSavedOutputVersionIdx =
                   IF mm.selectedSavedOutputVersionIdx <= 0
                   THEN Len(versions) - 1
                   ELSE mm.selectedSavedOutputVersionIdx - 1],
               NoCmd)

handleRightKey(mm) ==
    LET versions == versionsOf(mm, mm.selectedSavedOutputBase)
    IN  IF mm.currentScreen # SavedOutputVersionsScreen \/ Len(versions) = 0
        THEN R(mm, NoCmd)
        ELSE R([mm EXCEPT !.selectedSavedOutputVersionIdx =
                   IF mm.selectedSavedOutputVersionIdx >= Len(versions) - 1
                   THEN 0
                   ELSE mm.selectedSavedOutputVersionIdx + 1],
               NoCmd)

handleDKey(mm, in) ==
    LET title == SelectedItem(mm, in.i)
        viewBase == IF mm.selectedSavedOutputBase # <<>>
                    THEN mm.selectedSavedOutputBase
                    ELSE baseName(mm.selectedSavedOutput)
        versions == versionsOf(mm, mm.selectedSavedOutputBase)
    IN  CASE /\ mm.currentScreen = FavouritesListScreen /\ mm.favStore
             /\ favGet(Index(mm, in.i)) ->
                R(mm, deleteFavourite(mm, Index(mm, in.i)))
          [] /\ mm.currentScreen = HotkeysListScreen /\ mm.hotkeyStore
             /\ in.i \in 1..Len(mm.list)
             /\ \E k \in 1..Len(HotkeyKeys) : title = <<HotkeyKeys[k]>> ->
                [R(IF in.env = "fail" THEN [mm EXCEPT !.err = "save failed"]
                   ELSE navigateToHotkeysList([mm EXCEPT !.err = "ok: Unbound hotkey"]),
                   NoCmd)
                 EXCEPT !.bindings = Restrict(bindings, DOMAIN bindings \ {title[1]})]
          [] /\ mm.currentScreen = SavedOutputViewScreen
             /\ TrimSpace(mm.selectedSavedOutput) # <<>> ->
                R([mm EXCEPT
                      !.savedOutputsReturnScreen = SavedOutputVersionsScreen,
                      !.savedOutputsReturnBase = viewBase],
                  deleteSavedOutputCmd(mm, mm.selectedSavedOutput))
          [] /\ mm.currentScreen = SavedOutputsListScreen
             /\ in.i \in 1..Len(mm.list) /\ title # <<"No saved outputs">> ->
                R(mm, deleteSavedOutputGroupCmd(mm, title))
          [] mm.currentScreen = SavedOutputVersionsScreen /\ Len(versions) > 0 ->
                R([mm EXCEPT
                      !.savedOutputsReturnScreen = SavedOutputVersionsScreen,
                      !.savedOutputsReturnBase = mm.selectedSavedOutputBase,
                      !.savedOutputsReturnVersionIdx = clampedIdx(mm)],
                  deleteSavedOutputCmd(mm, versions[clampedIdx(mm) + 1]))
          [] OTHER -> R(mm, NoCmd)

handleSKey(mm, in) ==
    LET found == getSavedOutputBaseNameForCommand(mm.currentCommand, savedCmdDir,
                                                  files, index)
    IN  CASE mm.currentScreen = CommandOutputScreen ->
                IF in.env = "fail"
                THEN R([mm EXCEPT !.err = "index unreadable"], NoCmd)
                ELSE [(IF found.ok THEN R(mm, saveOutputCmd(mm, found.name))
                       ELSE R(navigateToSaveOutputName(mm), NoCmd))
                      EXCEPT !.index = found.index]
          [] /\ mm.currentScreen = CommandHistoryScreen
             /\ mm.historyStore /\ mm.favStore /\ historyGet(Index(mm, in.i)) ->
                R(navigateToSaveFavourite(
                      [mm EXCEPT !.currentCommand = history[Index(mm, in.i) + 1]]),
                  NoCmd)
          [] OTHER -> R(mm, NoCmd)

handleRKey(mm, in) ==
    LET title == SelectedItem(mm, in.i)
    IN  CASE /\ mm.currentScreen = FavouritesListScreen /\ mm.favStore
             /\ favGet(Index(mm, in.i)) ->
                R(navigateToRenameFavourite(mm, Index(mm, in.i)), NoCmd)
          [] /\ mm.currentScreen = SavedOutputsListScreen
             /\ in.i \in 1..Len(mm.list)
             /\ title # <<"No saved outputs">> /\ title # <<"Loading...">> ->
                R(navigateToRenameSavedOutputGroup(mm, title), NoCmd)
          [] /\ mm.currentScreen = SavedOutputVersionsScreen
             /\ mm.selectedSavedOutputBase # <<>> ->
                R(navigateToRenameSavedOutputGroup(mm, mm.selectedSavedOutputBase),
                  NoCmd)
          [] OTHER -> R(mm, NoCmd)

handleHKey(mm, in) ==
    IF /\ mm.currentScreen = FavouritesListScreen
       /\ mm.favStore /\ mm.hotkeyStore /\ favGet(Index(mm, in.i))
    THEN R([mm EXCEPT
               !.hotkeyBindingFavourite = favourites[Index(mm, in.i) + 1],
               !.hotkeyBindingPending = TRUE,
               !.previousScreen = mm.currentScreen,
               !.currentScreen = HotkeyBindScreen],
           NoCmd)
    ELSE R(mm, NoCmd)

\* TRUE when the F-key branch of handleKeyPress returns for this key
hotkeyTaken(mm, key) ==
    /\ mm.hotkeyStore /\ ~isTextInputScreen(mm)
    /\ \E k \in 1..Len(HotkeyKeys) : key = HotkeyKeys[k]
    /\ (mm.hotkeyBindingPending \/ key \in DOMAIN bindings)

handleKeyPress(mm, key, in) ==
    IF hotkeyTaken(mm, key) THEN handleHotkey(mm, key, in)
    ELSE CASE key = "q" -> handleQuitKey(mm)
           [] key = "esc" -> handleEscKey(mm)
           [] key = "enter" -> handleEnterKey(mm, in)
           [] key = " " -> handleSpaceKey(mm, in)
           [] key = "left" -> handleLeftKey(mm)
           [] key = "right" -> handleRightKey(mm)
           [] key = "d" -> handleDKey(mm, in)
           [] key = "s" -> handleSKey(mm, in)
           [] key = "r" -> handleRKey(mm, in)
           [] key = "h" -> handleHKey(mm, in)
           [] OTHER -> R(mm, NoCmd)

-----------------------------------------------------------------------------
(* Inputs of the store operations                                          *)

\* names typed at the save and rename prompts
NameInputs ==
    { <<"a">>, <<" ", "b", ".txt">>, <<"a", "_", "v", "2">>,
      <<"a", ".txt", " ">>, <<"_", "v", "2">> }

\* the output kept for saving (m.currentOutputContent)
Contents == {"out1", "out2"}

GetPods == <<"kubectl", " ", "get", " ", "pods">>

\* the active command (m.currentCommand) a save task captures
CommandInputs == { GetPods, GetPods \o <<" ">>, <<>> }

\* the groups the saved-outputs list shows for a directory listing (Update)
groupsOf(f) == {baseName(name) : name \in DOMAIN f}

-----------------------------------------------------------------------------
(* StoreSpec: the archival tasks run one at a time on the directory        *)

Task(kind, args, msg) == [kind |-> kind, args |-> args, msg |-> msg]

\* no message: the task has not run yet
NoMsg == [type |-> "none", err |-> NoErr]

\* nothing picked yet in the wizard flow
NoFlow == [resource |-> FALSE, action |-> FALSE, fetched |-> FALSE, named |-> FALSE]

StoreInit ==
    /\ savedCmdDir \in BOOLEAN
    /\ files = EmptyMap
    /\ index = EmptyMap
    /\ lastTask = Task("none", <<>>, NoMsg)
    /\ m = NewModel(TRUE, TRUE, TRUE)
    /\ favourites = <<>>
    /\ bindings = EmptyMap
    /\ history = <<>>
    /\ inflight = <<>>
    /\ quit = FALSE
    /\ flow = NoFlow
    /\ updates = 0

Apply(kind, args, r) ==
    /\ savedCmdDir' = r.dir
    /\ files' = r.files
    /\ index' = r.index
    /\ lastTask' = Task(kind, args, r.msg)
    /\ UNCHANGED uiVars

\* the task of saveOutput(name), with the output and command it captured
StoreSave ==
    \E name \in NameInputs, content \in Contents, command \in CommandInputs :
        LET r == saveOutput(name, content, command, savedCmdDir, files, index)
        IN  /\ Cardinality(DOMAIN r.files) <= MaxFiles
            /\ maxVersionOf(baseName(TrimSpace(TrimSuffix(name, Txt))), files)
                   < MaxVersion
            /\ Apply("save", <<name, content, command>>, r)

\* handleRenameSavedOutput followed by the task of renameSavedOutputGroup
StoreRename ==
    \E oldBase \in groupsOf(files), typed \in NameInputs :
        LET newName == TrimSuffix(TrimSpace(typed), Txt)
            r == renameSavedOutputGroup(oldBase, newName, savedCmdDir, files, index)
        IN  /\ TrimSpace(typed) # <<>>
            /\ Apply("rename", <<oldBase, newName>>, r)

\* the task of deleteSavedOutput(filename) for a listed version
StoreDeleteVersion ==
    \E filename \in DOMAIN files :
        Apply("deleteVersion", <<filename>>,
              deleteSavedOutput(filename, savedCmdDir, files, index))

\* the task of deleteSavedOutputGroup(base) for a listed group
StoreDeleteGroup ==
    \E base \in groupsOf(files) :
        Apply("deleteGroup", <<base>>,
              deleteSavedOutputGroup(base, savedCmdDir, files, index))

\* the lookup made when 's' is pressed on the output screen
StoreResolve ==
    \E command \in CommandInputs :
        LET r == getSavedOutputBaseNameForCommand(command, savedCmdDir, files, index)
        IN  /\ savedCmdDir' = savedCmdDir
            /\ files' = files
            /\ index' = r.index
            /\ lastTask' = Task("resolve", <<command>>,
                                [type |-> "resolved", name |-> r.name,
                                 ok |-> r.ok, err |-> NoErr])
            /\ UNCHANGED uiVars

StoreNext ==
    \/ StoreSave
    \/ StoreRename
    \/ StoreDeleteVersion
    \/ StoreDeleteGroup
    \/ StoreResolve

StoreSpec == StoreInit /\ [][StoreNext]_vars

-----------------------------------------------------------------------------
(* The kubectl client (kubectl/client.go) and the remaining messages       *)

CommandResult(output, error) == [Output |-> output, Error |-> error]

\* strings.Fields on a token sequence: the tokens that are not white space
Fields(s) == SelectSeq(s, LAMBDA t : t # " ")

\* env is what the cluster does: "ok", "fail" (kubectl exits with an error)
\* or "nocontext" (no current context is configured)
ExecuteRaw(commandStr, env) ==
    LET trimmed == TrimSpace(commandStr)
        stripped == IF HasPrefix(trimmed, <<"kubectl", " ">>)
                    THEN SubSeq(trimmed, 3, Len(trimmed)) ELSE trimmed
    IN  IF env = "nocontext" THEN CommandResult(<<>>, <<"no current context">>)
        ELSE IF Fields(stripped) = <<>>
        THEN CommandResult(<<>>, <<"invalid command">>)
        ELSE IF env = "fail" THEN CommandResult(<<>>, <<"stderr">>)
        ELSE CommandResult(<<"stdout">>, <<>>)

resourceNamesLoadedMsg(names, err) ==
    [type |-> "resourceNamesLoadedMsg", names |-> names, err |-> err]

commandExecutedMsg(result) ==
    [type |-> "commandExecutedMsg", result |-> result, err |-> NoErr]

commandHelpLoadedMsg(result) ==
    [type |-> "commandHelpLoadedMsg", result |-> result, err |-> NoErr]

clusterConnectivityCheckedMsg(result) ==
    [type |-> "clusterConnectivityCheckedMsg", result |-> result, err |-> NoErr]

contextSwitchedMsg(newContext, err) ==
    [type |-> "contextSwitchedMsg", newContext |-> newContext, err |-> err]

favouriteSavedMsg(err) == [type |-> "favouriteSavedMsg", err |-> err]
favouriteDeletedMsg(err) == [type |-> "favouriteDeletedMsg", err |-> err]
favouriteRenamedMsg(err) == [type |-> "favouriteRenamedMsg", err |-> err]

secretKeysLoadedMsg(keys, err) ==
    [type |-> "secretKeysLoadedMsg", keys |-> keys, err |-> err]

clusterInfoLoadedMsg == [type |-> "clusterInfoLoadedMsg", err |-> NoErr]

KeyMsg(key) == [type |-> "tea.KeyMsg", key |-> key, err |-> NoErr]

\* the names kubectl lists for any resource kind
ResourceNames == <<<<"web">>>>

\* renameSavedOutput: the rename of one file
renameSavedOutput(oldName, newName, d, f, ix) ==
    IF oldName = newName THEN Result(d, f, ix, savedOutputRenamedMsg(NoErr))
    ELSE IF newName \in DOMAIN f
    THEN Result(d, f, ix, savedOutputRenamedMsg("already exists"))
    ELSE IF oldName \notin DOMAIN f
    THEN Result(d, f, ix, savedOutputRenamedMsg("no such file"))
    ELSE Result(d, Rename(f, oldName, newName),
                updateSavedOutputsIndexOnRename(oldName, newName, ix),
                savedOutputRenamedMsg(NoErr))

\* history.Store.Add: newest first
historyAdd(h, command) == <<command>> \o h

\* what a task does when it runs: the stores and the directory as it leaves
\* them, and the message it hands to Update
Effect(h, fav, r) ==
    [history |-> h, favourites |-> fav, dir |-> r.dir, files |-> r.files,
     index |-> r.index, msg |-> r.msg]

Still(msg) == Result(savedCmdDir, files, index, msg)

runTask(t, env) ==
    LET a == t.args
        saveErr == IF env = "fail" THEN "save failed" ELSE NoErr
    IN  CASE t.kind = "executeCommand" ->
                Effect(IF a[1] /\ TrimSpace(a[2]) # <<>>
                       THEN historyAdd(history, a[2]) ELSE history,
                       favourites,
                       Still(commandExecutedMsg(ExecuteRaw(a[2], env))))
          [] t.kind = "loadCommandHelp" ->
                LET helpCmd0 == IF TrimSpace(a[1]) = <<>> THEN <<"kubectl">>
                                ELSE TrimSpace(a[1])
                    helpCmd == IF HasSuffix(helpCmd0, <<" ", "--help">>) THEN helpCmd0
                               ELSE helpCmd0 \o <<" ", "--help">>
                IN  Effect(history, favourites,
                           Still(commandHelpLoadedMsg(ExecuteRaw(helpCmd, env))))
          [] t.kind = "checkClusterConnectivity" ->
                Effect(history, favourites,
                       Still(clusterConnectivityCheckedMsg(
                                 ExecuteRaw(<<"kubectl", " ", "cluster-info">>, env))))
          [] t.kind = "loadClusterInfo" ->
                Effect(history, favourites, Still(clusterInfoLoadedMsg))
          [] t.kind \in {"fetchPodNames", "fetchResourceNames"} ->
                Effect(history, favourites,
                       Still(IF env = "ok"
                             THEN resourceNamesLoadedMsg(ResourceNames, NoErr)
                             ELSE resourceNamesLoadedMsg(<<>>, "kubectl error")))
          [] t.kind = "fetchSecretKeys" ->
                Effect(history, favourites,
                       Still(IF env = "ok"
                             THEN secretKeysLoadedMsg(<<<<"metadata.name">>>>, NoErr)
                             ELSE secretKeysLoadedMsg(<<>>, "kubectl error")))
          [] t.kind = "switchContext" ->
                Effect(history, favourites,
                       Still(contextSwitchedMsg(a[1], IF env = "ok" THEN NoErr
                                                      ELSE "kubectl error")))
          [] t.kind = "saveFavourite" ->
                Effect(history, Append(favourites, a[1]),
                       Still(favouriteSavedMsg(saveErr)))
          [] t.kind = "deleteFavourite" ->
                IF a[1] < 0 \/ a[1] >= Len(favourites)
                THEN Effect(history, favourites, Still(favouriteDeletedMsg(NoErr)))
                ELSE Effect(history, RemoveAt(favourites, a[1] + 1),
                            Still(favouriteDeletedMsg(saveErr)))
          [] t.kind = "renameFavourite" ->
                IF a[1] < 0 \/ a[1] >= Len(favourites)
                THEN Effect(history, favourites, Still(favouriteRenamedMsg(NoErr)))
                ELSE Effect(history,
                            [favourites EXCEPT ![a[1] + 1].Name = a[2]],
                            Still(favouriteRenamedMsg(saveErr)))
          [] t.kind = "saveOutput" ->
                Effect(history, favourites,
                       saveOutput(a[1], a[2], a[3], savedCmdDir, files, index))
          [] t.kind = "deleteSavedOutput" ->
                Effect(history, favourites,
                       deleteSavedOutput(a[1], savedCmdDir, files, index))
          [] t.kind = "deleteSavedOutputGroup" ->
                Effect(history, favourites,
                       deleteSavedOutputGroup(a[1], savedCmdDir, files, index))
          [] t.kind = "renameSavedOutputGroup" ->
                Effect(history, favourites,
                       renameSavedOutputGroup(a[1], a[2], savedCmdDir, files, index))
          [] t.kind = "renameSavedOutput" ->
                Effect(history, favourites,
                       renameSavedOutput(a[1], a[2], savedCmdDir, files, index))
          [] OTHER ->
                Effect(history, favourites,
                       loadSavedOutputsCmd(savedCmdDir, files, index))

-----------------------------------------------------------------------------
(* Update on the messages of finished tasks (model_update.go)              *)

\* the version number a file name sorts by
versionOf(name) ==
    IF FindStringSubmatch(name) # <<>> THEN Atoi(FindStringSubmatch(name)[3]) ELSE 1

\* sort.Slice by version; names of equal version stay in some order
sortByVersion(S) ==
    CHOOSE seq \in [1..Cardinality(S) -> S] :
        /\ \A x \in S : \E k \in 1..Cardinality(S) : seq[k] = x
        /\ \A j, k \in 1..Cardinality(S) :
              j < k => versionOf(seq[j]) <= versionOf(seq[k])

groupByBase(fs) ==
    [b \in {baseName(f) : f \in fs} |-> sortByVersion({f \in fs : baseName(f) = b})]

\* the text shown for a command result
outputOf(result, label) ==
    IF result.Error # <<>>
    THEN <<"Error:">> \o result.Error \o <<label>> \o result.Output
    ELSE <<label>> \o result.Output

\* the connectivity report: the error, or a verdict and the non-blank lines
connectivityOf(result) ==
    IF result.Error # <<>>
    THEN <<"Error:">> \o result.Error \o <<"Cluster Connectivity:">> \o result.Output
    ELSE IF \E k \in 1..Len(result.Output) :
                result.Output[k] = "Unable to connect to the server"
    THEN <<"Cluster Connectivity:", "Cannot connect">> \o result.Output
    ELSE <<"Cluster Connectivity:", "Connected">>
             \o SelectSeq(result.Output,
                          LAMBDA t : t \notin {" ", "Further debugging"})

\* a display that fills the viewport only
shownInViewportOnly(mm, output, screen) ==
    [mm EXCEPT !.viewport = output, !.currentScreen = screen]

shown(mm, output, screen) ==
    [mm EXCEPT !.viewport = output, !.currentOutputContent = output,
               !.currentScreen = screen]

clearReturn(mm) ==
    [mm EXCEPT !.savedOutputsReturnScreen = ZeroScreen,
               !.savedOutputsReturnBase = <<>>,
               !.savedOutputsReturnVersionIdx = 0]

withErr(mm, err) == IF err # NoErr THEN [mm EXCEPT !.err = err] ELSE mm

UpdateMsg(mm, msg) ==
    CASE msg.type = "resourceNamesLoadedMsg" ->
            IF msg.err # NoErr THEN R([mm EXCEPT !.err = msg.err], NoCmd)
            ELSE R([mm EXCEPT !.list = msg.names,
                              !.currentScreen = ResourceNameSelectionScreen],
                   NoCmd)
      [] msg.type = "commandExecutedMsg" ->
            R(shown(mm, outputOf(msg.result, "Output:"), CommandOutputScreen), NoCmd)
      [] msg.type = "commandHelpLoadedMsg" ->
            R(shown(mm, outputOf(msg.result, "Help Output:"), CommandHelpScreen),
              NoCmd)
      [] msg.type = "clusterConnectivityCheckedMsg" ->
            R(shown(mm, connectivityOf(msg.result), ClusterConnectivityScreen), NoCmd)
      [] msg.type = "contextSwitchedMsg" ->
            IF msg.err # NoErr THEN R([mm EXCEPT !.err = msg.err], NoCmd)
            ELSE R(navigateToMainMenu([mm EXCEPT !.err = "ok: Switched context"]),
                   NoCmd)
      [] msg.type = "favouriteSavedMsg" ->
            R(navigateToMainMenu(withErr(mm, msg.err)), NoCmd)
      [] msg.type = "favouriteDeletedMsg" ->
            R(navigateToFavouritesList(withErr(mm, msg.err)), NoCmd)
      [] msg.type = "favouriteRenamedMsg" ->
            R(navigateToFavouritesList(withErr(mm, msg.err)), NoCmd)
      [] msg.type = "savedOutputRenamedMsg" ->
            loadSavedOutputs(withErr(mm, msg.err))
      [] msg.type = "outputSavedMsg" ->
            IF msg.err # NoErr
            THEN R([mm EXCEPT !.err = "Failed to save output"], NoCmd)
            ELSE R(navigateToMainMenu([mm EXCEPT !.err = "ok: Output saved"]), NoCmd)
      [] msg.type = "savedOutputsLoadedMsg" ->
            IF msg.err # NoErr
            THEN R(navigateToMainMenu([mm EXCEPT !.err = msg.err]), NoCmd)
            ELSE LET grouped == [mm EXCEPT !.savedOutputsByBase =
                                    groupByBase(msg.files)]
                 IN  IF /\ mm.savedOutputsReturnScreen = SavedOutputVersionsScreen
                        /\ mm.savedOutputsReturnBase # <<>>
                        /\ mm.savedOutputsReturnBase \in DOMAIN grouped.savedOutputsByBase
                     THEN R(navigateToSavedOutputVersions(
                                [clearReturn(grouped) EXCEPT
                                    !.selectedSavedOutputVersionIdx =
                                        mm.savedOutputsReturnVersionIdx],
                                mm.savedOutputsReturnBase),
                            NoCmd)
                     ELSE R(navigateToSavedOutputsGroups(clearReturn(grouped)), NoCmd)
      [] OTHER -> R(mm, NoCmd)

Update(mm, msg, in) ==
    IF msg.type = "tea.KeyMsg" THEN handleKeyPress(mm, msg.key, in)
    ELSE UpdateMsg(mm, msg)

-----------------------------------------------------------------------------
(* Spec: the wizard, its key presses and its deferred tasks                *)

\* menu entries the bounded user leaves alone
SkippedTitles ==
    { <<"Deployments">>, <<"Services">>, <<"Nodes">>, <<"ConfigMaps">>,
      <<"Ingress">>, <<"Logs">>, <<"Edit">>, <<"Exec">>,
      <<Unchecked, "-o yaml">>, <<Unchecked, "-o json">>,
      <<Unchecked, "--show-labels">>, <<Unchecked, "-A">> }

\* where the list cursor may stand when a key is pressed (0: empty list)
CursorChoices(mm) ==
    IF mm.list = <<>> THEN {0}
    ELSE {i \in 1..Len(mm.list) : mm.list[i] \notin SkippedTitles}

\* what the input field may hold when a key is pressed; the field only
\* receives keys on the screens of isTextInputScreen
TextInputs == { <<>>, <<"a">>, <<"b">> }

TextChoices(mm) == IF isTextInputScreen(mm) THEN TextInputs ELSE {<<>>}

\* the answers of kubectl and of the disk to a key press that asks them
KeyEnv(mm, key) ==
    IF \/ key = "enter" /\ mm.currentScreen = ContextsNamespacesMenuScreen
       \/ key = "d" /\ mm.currentScreen = HotkeysListScreen
       \/ key = "s" /\ mm.currentScreen = CommandOutputScreen
       \/ mm.hotkeyBindingPending
    THEN {"ok", "fail"} ELSE {"ok"}

HotkeyChoices == {"F1"}

\* what an earlier session may have left on the disk: nothing, or one
\* executed command that was saved as a favourite and whose output was saved
Init ==
    /\ lastTask = Task("none", <<>>, NoMsg)
    /\ \E avail \in BOOLEAN, used \in BOOLEAN :
          /\ m = NewModel(avail, avail, avail)
          /\ savedCmdDir = used
          /\ files = IF used THEN Put(EmptyMap, <<"a">>, <<"Output:", "stdout">>)
                     ELSE EmptyMap
          /\ index = IF used THEN Put(EmptyMap, GetPods, <<"a">>) ELSE EmptyMap
          /\ favourites = IF used /\ avail
                          THEN <<[Name |-> <<"a">>, Command |-> GetPods]>> ELSE <<>>
          /\ history = IF used /\ avail THEN <<GetPods>> ELSE <<>>
    /\ bindings = EmptyMap
    /\ inflight = <<>>
    /\ quit = FALSE
    /\ flow = NoFlow
    /\ updates = 0

\* the wizard flow after Update turned mm into r.m on message msg
flowAfter(mm, msg, r) ==
    IF r.m.currentScreen \in {MainMenuScreen, ResourceSelectionScreen} THEN NoFlow
    ELSE IF msg.type = "tea.KeyMsg" /\ msg.key = "enter"
    THEN CASE /\ mm.currentScreen = ResourceSelectionScreen
              /\ r.m.currentScreen = ActionSelectionScreen ->
                    [flow EXCEPT !.resource = TRUE]
           [] /\ mm.currentScreen = ActionSelectionScreen
              /\ (r.cmd # NoCmd \/ r.m.currentScreen = FlagsSelectionScreen) ->
                    [flow EXCEPT !.action = TRUE, !.fetched = FALSE, !.named = FALSE]
           [] /\ mm.currentScreen = ResourceNameSelectionScreen
              /\ r.m.selectedResourceName # <<>> /\ r.m # mm ->
                    [flow EXCEPT !.named = flow.fetched]
           [] OTHER -> flow
    ELSE IF msg.type = "resourceNamesLoadedMsg" /\ msg.err = NoErr
    THEN [flow EXCEPT !.fetched = flow.action]
    ELSE flow

\* one call of Update: the Model it returns replaces the current one and the
\* tea.Cmd it returns, if any, is started
Step(msg, r, pending) ==
    /\ updates < MaxUpdates
    /\ updates' = updates + 1
    /\ Len(r.m.selectedFlags) <= MaxFlags
    /\ m' = r.m
    /\ bindings' = r.bindings
    /\ index' = r.index
    /\ flow' = flowAfter(m, msg, r)
    /\ IF r.cmd = QuitCmd
       THEN quit' = TRUE /\ inflight' = pending
       ELSE /\ quit' = FALSE
            /\ IF r.cmd = NoCmd THEN inflight' = pending
               ELSE /\ Len(pending) < MaxInFlight
                    /\ inflight' = Append(pending, Task(r.cmd.kind, r.cmd.args, NoMsg))
    /\ UNCHANGED <<savedCmdDir, files, favourites, history, lastTask>>

\* a key press handed to Update with the cursor, the input field and the
\* environment as they may be at that moment
Press(key) ==
    \E i \in CursorChoices(m), text \in TextChoices(m), env \in KeyEnv(m, key) :
        Step(KeyMsg(key), Update(m, KeyMsg(key), In(i, text, env)), inflight)

PressHotkey == \E hk \in HotkeyChoices : ~quit /\ Press(hk)

PressQuit == ~quit /\ Press("q")

PressEsc == ~quit /\ Press("esc")

PressEnter == ~quit /\ Press("enter")

PressSpace == ~quit /\ Press(" ")

PressLeft == ~quit /\ Press("left")

PressRight == ~quit /\ Press("right")

PressD == ~quit /\ Press("d")

PressS == ~quit /\ Press("s")

PressR == ~quit /\ Press("r")

PressH == ~quit /\ Press("h")

\* what the cluster or the disk may answer to a task
TaskEnv(t) ==
    IF t.kind = "executeCommand" THEN {"ok", "fail", "nocontext"}
    ELSE IF t.kind \in {"loadCommandHelp", "checkClusterConnectivity",
                        "fetchPodNames", "fetchResourceNames", "fetchSecretKeys",
                        "switchContext", "saveFavourite", "deleteFavourite",
                        "renameFavourite"}
    THEN {"ok", "fail"}
    ELSE {"ok"}

\* a started task runs to its end and leaves its message for Update
RunTask ==
    /\ ~quit
    /\ \E k \in 1..Len(inflight) : \E env \in TaskEnv(inflight[k]) :
          LET e == runTask(inflight[k], env)
          IN  /\ inflight[k].msg = NoMsg
              /\ Len(e.history) <= MaxHistory
              /\ Len(e.favourites) <= MaxFavourites
              /\ Cardinality(DOMAIN e.files) <= MaxFiles
              /\ \A f \in DOMAIN e.files : versionOf(f) <= MaxVersion
              /\ history' = e.history
              /\ favourites' = e.favourites
              /\ savedCmdDir' = e.dir
              /\ files' = e.files
              /\ index' = e.index
              /\ inflight' = [inflight EXCEPT ![k].msg = e.msg]
              /\ UNCHANGED <<m, bindings, lastTask, quit, flow, updates>>

\* Update receives the message of a finished task
Deliver ==
    /\ ~quit
    /\ \E k \in 1..Len(inflight) :
          /\ inflight[k].msg # NoMsg
          /\ Step(inflight[k].msg,
                  Update(m, inflight[k].msg, In(0, <<>>, "ok")),
                  RemoveAt(inflight, k))

Next ==
    \/ PressHotkey
    \/ PressQuit
    \/ PressEsc
    \/ PressEnter
    \/ PressSpace
    \/ PressLeft
    \/ PressRight
    \/ PressD
    \/ PressS
    \/ PressR
    \/ PressH
    \/ RunTask
    \/ Deliver

Spec == Init /\ [][Next]_vars

-----------------------------------------------------------------------------
(* FlagsSpec: the checklist of one action, toggled entry by entry          *)

FlagsInit ==
    /\ \E action \in {ActionGet, ActionDescribe, ActionLogs} :
          m = navigateToFlagsSelection(
                  [NewModel(TRUE, TRUE, TRUE) EXCEPT
                      !.currentScreen = ActionSelectionScreen,
                      !.selectedAction = action])
    /\ savedCmdDir = FALSE
    /\ files = EmptyMap
    /\ index = EmptyMap
    /\ lastTask = Task("none", <<>>, NoMsg)
    /\ favourites = <<>>
    /\ bindings = EmptyMap
    /\ history = <<>>
    /\ inflight = <<>>
    /\ quit = FALSE
    /\ flow = NoFlow
    /\ updates = 0

\* the space bar on any entry of the checklist
FlagsToggle ==
    /\ \E i \in 1..Len(m.list) : m' = handleSpaceKey(m, In(i, <<>>, "ok")).m
    /\ UNCHANGED <<storeVars, favourites, bindings, history, inflight, quit, flow,
                   updates>>

FlagsNext == FlagsToggle

FlagsSpec == FlagsInit /\ [][FlagsNext]_vars

-----------------------------------------------------------------------------
(* Properties                                                              *)

AccumulatorEmpty(mm) ==
    /\ mm.selectedResource = ZeroResource
    /\ mm.selectedAction = ZeroAction
    /\ mm.selectedResourceName = <<>>
    /\ mm.selectedFlags = <<>>
    /\ mm.customNamespace = <<>>
    /\ ~mm.needsNamespaceInput
    /\ mm.currentCommand = <<>>

\* C1: every step that makes the main menu or the resource-kind selection the
\* current screen leaves the seven accumulator fields empty/zero.
C1_ResetOnEntry ==
    [][(/\ m'.currentScreen \in {MainMenuScreen, ResourceSelectionScreen}
        /\ m'.currentScreen # m.currentScreen)
       => AccumulatorEmpty(m')]_vars

\* the main menu entered from the preview of a built command
C1_Witness ==
    /\ m.currentScreen = MainMenuScreen
    /\ m.previousScreen = CommandPreviewScreen
    /\ AccumulatorEmpty(m)

ExecutionsInFlight == {k \in 1..Len(inflight) : inflight[k].kind = "executeCommand"}

\* C2: at most one execution task is in flight at any time.
C2_OneExecutionInFlight == Cardinality(ExecutionsInFlight) <= 1

ArchivalKinds ==
    {"saveOutput", "deleteSavedOutput", "deleteSavedOutputGroup",
     "renameSavedOutputGroup", "renameSavedOutput", "loadSavedOutputsCmd"}

ArchivalInFlight == {k \in 1..Len(inflight) : inflight[k].kind \in ArchivalKinds}

\* C3: at most one task on the archival directory or its index is in flight
\* at any time.
C3_OneArchivalInFlight == Cardinality(ArchivalInFlight) <= 1

\* C4: a back action (Esc) on the flags screen always makes action selection
\* the current screen.
C4_BackFromFlags ==
    [][(m.currentScreen = FlagsSelectionScreen /\ PressEsc)
       => m'.currentScreen = ActionSelectionScreen]_vars

\* action selection entered by going back from the flags screen
C4_Witness ==
    /\ m.currentScreen = ActionSelectionScreen
    /\ m.previousScreen = FlagsSelectionScreen

\* C5: whenever the flags screen is current, a resource kind and an action
\* were picked since the accumulator was last reset, and an action that needs
\* a target name had its names fetched and one of them picked.
C5_FlagsAfterPicks ==
    m.currentScreen = FlagsSelectionScreen
    => /\ flow.resource
       /\ flow.action
       /\ (m.selectedAction \notin {ActionGet, ActionTop}
           => flow.fetched /\ flow.named)

\* the checklist entries of generic flags
GenericEntries(mm) ==
    {i \in 1..Len(mm.list) :
        /\ Len(mm.list[i]) = 2
        /\ <<mm.list[i][2]>> # NamespaceFlag}

ToggledTwice(mm, i) == toggleFlag(toggleFlag(mm, i), i).selectedFlags

Without(flags, flag) == SelectSeq(flags, LAMBDA f : f # flag)

Elements(flags) == {flags[k] : k \in 1..Len(flags)}

\* C6: toggling a generic flag twice leaves the selected-flag list as it was,
\* same elements in the same order, wherever the flag stood.
C6_ToggleTwiceSameList ==
    \A i \in GenericEntries(m) : ToggledTwice(m, i) = m.selectedFlags

\* C6, as the code has it: toggling a generic flag twice leaves the same flags
\* selected and the other flags in their order; the list itself is the same
\* when the flag was not selected or stood last, and otherwise the flag has
\* moved to the end.
C6_ToggleTwiceSameFlags ==
    \A i \in GenericEntries(m) :
        LET flag == <<m.list[i][2]>>
            before == m.selectedFlags
            after == ToggledTwice(m, i)
        IN  /\ Elements(after) = Elements(before)
            /\ Len(after) = Len(before)
            /\ Without(after, flag) = Without(before, flag)
            /\ (flag \in Elements(before) => after = Append(Without(before, flag), flag))
            /\ (flag \notin Elements(before) => after = before)

\* two generic flags are selected, so one of them does not stand last
C6_Witness ==
    /\ m.currentScreen = FlagsSelectionScreen
    /\ Len(m.selectedFlags) >= 2
    /\ \E i \in GenericEntries(m) : m.selectedFlags[1] = <<m.list[i][2]>>

Sanitised(name) == TrimSpace(TrimSuffix(name, Txt))

\* C7: a successful save leaves the file it names in place with the content
\* saved, and the index maps the active command to the base of that file.
C7_SaveIndexesBase ==
    (lastTask.kind = "save" /\ lastTask.msg.err = NoErr)
    => LET written == TrimSuffix(lastTask.msg.filename, Txt)
           command == TrimSpace(lastTask.args[3])
       IN  /\ written \in DOMAIN files
           /\ files[written] = lastTask.args[2]
           /\ (command # <<>>
               => /\ command \in DOMAIN index
                  /\ index[command] = baseName(written))

\* C8: after a successful rename to a different name, every file of the old
\* base is under the new base with its version suffix, no file of the old base
\* is left, every renamed file has the new base as its derived base, and the
\* index entries that had the old base have the new one.
C8_RenameMovesGroup ==
    [][(/\ lastTask'.kind = "rename"
        /\ lastTask'.msg.err = NoErr
        /\ lastTask'.args[1] # Sanitised(lastTask'.args[2])
        /\ <<files, index>> # <<files', index'>>)
       => LET oldBase == lastTask'.args[1]
              newBase == Sanitised(lastTask'.args[2])
              moved == {name \in DOMAIN files : fileBase(name) = oldBase}
          IN  /\ \A name \in moved :
                    /\ newBase \o fileSuffix(name) \in DOMAIN files'
                    /\ files'[newBase \o fileSuffix(name)] = files[name]
                    /\ baseName(newBase \o fileSuffix(name)) = newBase
              /\ \A name \in DOMAIN files' : baseName(name) # oldBase
              /\ \A cmd \in DOMAIN index :
                    index[cmd] = oldBase
                    => cmd \in DOMAIN index' /\ index'[cmd] = newBase]_vars

\* C9: a rename to a different base under which a target file name already
\* exists fails and leaves every file and index entry as it was.
C9_RenameCollisionFails ==
    [][(/\ lastTask'.kind = "rename"
        /\ lastTask' # lastTask
        /\ Sanitised(lastTask'.args[1]) # Sanitised(lastTask'.args[2])
        /\ \E rn \in renamesOf(Sanitised(lastTask'.args[1]),
                               Sanitised(lastTask'.args[2]), files) :
              rn[2] \in DOMAIN files)
       => /\ lastTask'.msg.err # NoErr
          /\ files' = files
          /\ index' = index]_vars

\* a rename was refused because a target name was taken
C9_Witness ==
    /\ lastTask.kind = "rename"
    /\ lastTask.msg.err = "already exists"
    /\ \E rn \in renamesOf(Sanitised(lastTask.args[1]),
                           Sanitised(lastTask.args[2]), files) :
          rn[2] \in DOMAIN files

\* C10: deleting one version removes the index entries of its base exactly
\* when no other file of the base is left, and keeps them otherwise.
C10_DeletePurgesWithLastVersion ==
    [][(/\ lastTask'.kind = "deleteVersion"
        /\ lastTask'.args[1] \in DOMAIN files
        /\ lastTask'.args[1] \notin DOMAIN files')
       => LET base == baseName(lastTask'.args[1])
              remains == \E name \in DOMAIN files' : baseName(name) = base
          IN  \A cmd \in DOMAIN index :
                  index[cmd] = base
                  => IF remains
                     THEN cmd \in DOMAIN index' /\ index'[cmd] = base
                     ELSE cmd \notin DOMAIN index']_vars

\* C11: deleting a group removes every file of the group, and the index
\* entries of its base are kept when a file of the base is still there.
C11_DeleteGroupRemovesAll ==
    [][(/\ lastTask'.kind = "deleteGroup"
        /\ lastTask'.msg.err = NoErr
        /\ lastTask' # lastTask)
       => LET base == lastTask'.args[1]
              remains == \E name \in DOMAIN files' : baseName(name) = base
          IN  /\ ~remains
              /\ \A cmd \in DOMAIN index :
                    (index[cmd] = base /\ remains)
                    => cmd \in DOMAIN index' /\ index'[cmd] = base]_vars

\* the model on the output screen of a command, where 's' is pressed
OnOutputOf(command) ==
    [m EXCEPT !.currentScreen = CommandOutputScreen, !.currentCommand = command]

\* C12: 's' on the output screen of a command whose index entry names a base
\* with a file left starts a save under that base and shows no prompt; when
\* the base has no file left the entry is purged and the name prompt is shown.
C12_SaveAgainResolvesBase ==
    [][(/\ lastTask'.kind = "resolve"
        /\ lastTask'.args[1] \in DOMAIN index
        /\ Sanitised(index[lastTask'.args[1]]) # <<>>)
       => LET command == lastTask'.args[1]
              base == Sanitised(index[command])
              remains == \E name \in DOMAIN files : baseName(name) = base
              r == handleSKey(OnOutputOf(command), In(0, <<>>, "ok"))
          IN  IF remains
              THEN /\ lastTask'.msg.ok
                   /\ lastTask'.msg.name = base
                   /\ index' = index
                   /\ r.cmd = saveOutputCmd(OnOutputOf(command), base)
                   /\ r.m.currentScreen = CommandOutputScreen
              ELSE /\ ~lastTask'.msg.ok
                   /\ \A cmd \in DOMAIN index' : index'[cmd] # base
                   /\ r.cmd = NoCmd
                   /\ r.m.currentScreen = SaveOutputNameScreen]_vars

-----------------------------------------------------------------------------
(* FinaliseSpec: the handlers that turn the accumulator into a command     *)

\* the fields fetchSecretKeys lists for a secret
SecretKeys == << <<"data.", "password">>, <<"metadata.name">> >>

\* the accumulator after a resource kind and an action were picked, with the
\* default namespace chosen on the namespaces list
Picked(resource, action, ns) ==
    [NewModel(TRUE, TRUE, TRUE) EXCEPT
        !.selectedResource = resource,
        !.selectedAction = action,
        !.defaultNamespace = ns,
        !.currentScreen = ActionSelectionScreen]

\* the name list loaded for the picked resource kind
OnNames(mm) ==
    [mm EXCEPT !.list = ResourceNames, !.currentScreen = ResourceNameSelectionScreen]

FinaliseInit ==
    /\ savedCmdDir = FALSE
    /\ files = EmptyMap
    /\ index = EmptyMap
    /\ lastTask = Task("none", <<>>, NoMsg)
    /\ favourites = <<>>
    /\ bindings = EmptyMap
    /\ history = <<>>
    /\ inflight = <<>>
    /\ quit = FALSE
    /\ flow = NoFlow
    /\ updates = 0
    /\ \E resource \in {ResourcePods, ResourceSecrets},
          action \in {ActionGet, ActionDescribe, ActionDelete, ActionPortForward,
                      ActionExtractField},
          ns \in {<<>>, <<"dev">>} :
          /\ action = ActionExtractField => resource = ResourceSecrets
          /\ m = IF action = ActionGet
                 THEN navigateToFlagsSelection(Picked(resource, action, ns))
                 ELSE IF action = ActionExtractField
                 THEN navigateToSecretFieldSelection(
                          [OnNames(Picked(resource, action, ns)) EXCEPT
                              !.selectedResourceName = ResourceNames[1]],
                          SecretKeys)
                 ELSE handleResourceNameSelection(
                          OnNames(Picked(resource, action, ns)), 1).m

FinaliseFrame ==
    UNCHANGED <<storeVars, favourites, bindings, history, quit, flow, updates>>

\* the model and the started task a handler returned replace the current ones
FinaliseApply(r) ==
    /\ m' = r.m
    /\ inflight' = IF r.cmd = NoCmd THEN inflight
                   ELSE Append(inflight, Task(r.cmd.kind, r.cmd.args, NoMsg))
    /\ FinaliseFrame

\* the space bar on an entry of the checklist
FinaliseToggle ==
    /\ m.currentScreen = FlagsSelectionScreen
    /\ \E i \in 1..Len(m.list) :
          /\ Len(handleSpaceKey(m, In(i, <<>>, "ok")).m.selectedFlags) <= MaxFlags
          /\ FinaliseApply(handleSpaceKey(m, In(i, <<>>, "ok")))

\* Enter on Done
FinaliseDone ==
    /\ m.currentScreen = FlagsSelectionScreen
    /\ \E i \in 1..Len(m.list) :
          /\ m.list[i] = Done
          /\ FinaliseApply(handleFlagsSelection(m, i))

\* Enter on the namespace prompt
FinaliseNamespace ==
    /\ m.currentScreen = NamespaceInputScreen
    /\ \E text \in {<<"prod">>, <<"dev">>} : FinaliseApply(handleNamespaceInput(m, text))

\* Enter on an entry of the delete confirmation
FinaliseDelete ==
    /\ m.currentScreen = DeleteConfirmationScreen
    /\ inflight = <<>>
    /\ \E i \in 1..Len(m.list) : FinaliseApply(handleDeleteConfirmationSelection(m, i))

\* Enter on the port prompt
FinalisePort ==
    /\ m.currentScreen = PortInputScreen
    /\ \E ports \in {<<"8080:80">>} : FinaliseApply(handlePortInput(m, ports))

\* Enter on a field of the secret
FinaliseSecret ==
    /\ m.currentScreen = SecretFieldSelectionScreen
    /\ \E i \in 1..Len(m.list) : FinaliseApply(handleSecretFieldSelection(m, i))

\* Esc on the namespace prompt or on the preview
FinaliseBack ==
    /\ m.currentScreen \in {NamespaceInputScreen, CommandPreviewScreen}
    /\ FinaliseApply(handleEscKey(m))

FinaliseNext ==
    \/ FinaliseToggle
    \/ FinaliseDone
    \/ FinaliseNamespace
    \/ FinaliseDelete
    \/ FinalisePort
    \/ FinaliseSecret
    \/ FinaliseBack

FinaliseSpec == FinaliseInit /\ [][FinaliseNext]_vars

\* seq holds sub as a run of consecutive tokens
ContainsSeq(seq, sub) ==
    \E k \in 0..(Len(seq) - Len(sub)) :
        \A j \in 1..Len(sub) : seq[k + j] = sub[j]

\* the namespace flag of ns as it stands in a command
InNamespace(command, ns) == ContainsSeq(command, <<" ", "-n", " ">> \o ns)

GenericFlags(flags) ==
    SelectSeq(flags, LAMBDA f : ~(Len(f) >= 1 /\ f[1] = "-n"))

\* the checklist entry at i is the namespace entry, checked or not
IsNamespaceEntry(mm, i) ==
    /\ i \in 1..Len(mm.list)
    /\ mm.list[i] \in {<<Unchecked>> \o NamespaceFlag, <<Checked>> \o NamespaceFlag}

\* C14: a toggle of the namespace entry on the flags screen leaves the generic
\* selected flags the same sequence, and takes at most one entry (a namespace
\* one) out of the selected flags.
C14_NamespaceToggleKeepsGeneric ==
    [][\A i \in 1..Len(m.list) :
          (/\ m.currentScreen = FlagsSelectionScreen
           /\ IsNamespaceEntry(m, i)
           /\ m' = toggleFlag(m, i))
          => /\ GenericFlags(m'.selectedFlags) = GenericFlags(m.selectedFlags)
             /\ Len(m'.selectedFlags) <= Len(m.selectedFlags)
             /\ Len(m'.selectedFlags) >= Len(m.selectedFlags) - 1
             /\ m'.needsNamespaceInput = ~m.needsNamespaceInput]_vars

\* the namespace entry was selected while generic flags are selected
C14_Witness ==
    /\ m.currentScreen = FlagsSelectionScreen
    /\ m.needsNamespaceInput
    /\ Len(GenericFlags(m.selectedFlags)) >= 2
    /\ \E i \in 1..Len(m.list) : m.list[i] = <<Checked>> \o NamespaceFlag

\* a literal namespace flag: "-n" followed by a value, or the checklist's own text
IsNamespaceFlagString(f) == (Len(f) >= 1 /\ f[1] = "-n") \/ f = NamespaceFlag

HasNamespaceFlagString(flags) ==
    \E k \in 1..Len(flags) : IsNamespaceFlagString(flags[k])

\* C15: while the flags screen is current the selected flags hold no literal
\* namespace flag, a toggle of the namespace entry only flips
\* needsNamespaceInput, and a literal namespace flag among the selected flags
\* is part of the command that was built with it.
C15_NoNamespaceLiteralOnFlags ==
    /\ m.currentScreen = FlagsSelectionScreen
       => /\ ~HasNamespaceFlagString(m.selectedFlags)
          /\ \A i \in 1..Len(m.list) :
                IsNamespaceEntry(m, i)
                => LET t == toggleFlag(m, i)
                   IN  /\ t.needsNamespaceInput = ~m.needsNamespaceInput
                       /\ t.selectedFlags = m.selectedFlags
                       /\ t.customNamespace = m.customNamespace
                       /\ t.currentCommand = m.currentCommand
                       /\ t.currentScreen = m.currentScreen
    /\ \A k \in 1..Len(m.selectedFlags) :
          IsNamespaceFlagString(m.selectedFlags[k])
          => /\ m.selectedFlags[k] # NamespaceFlag
             /\ ContainsSeq(m.currentCommand, <<" ">> \o m.selectedFlags[k])

\* a namespace was toggled on, typed at the prompt, and the command built with it
C15_Witness ==
    /\ m.currentScreen = CommandPreviewScreen
    /\ HasNamespaceFlagString(m.selectedFlags)
    /\ m.needsNamespaceInput
    /\ m.customNamespace # <<>>

\* C16: Done is never among the selected flags; on the flags screen a toggle
\* on Done changes nothing, and Enter on Done opens the namespace prompt when
\* needsNamespaceInput is set and otherwise builds the command from the
\* accumulator and opens the preview.
C16_DoneNeverToggles ==
    /\ \A k \in 1..Len(m.selectedFlags) : m.selectedFlags[k] # Done
    /\ m.currentScreen = FlagsSelectionScreen
       => \A i \in 1..Len(m.list) :
             m.list[i] = Done
             => LET t == Update(m, KeyMsg(" "), In(i, <<>>, "ok"))
                    e == Update(m, KeyMsg("enter"), In(i, <<>>, "ok"))
                IN  /\ t.m = m
                    /\ t.cmd = NoCmd
                    /\ e.cmd = NoCmd
                    /\ \A k \in 1..Len(e.m.selectedFlags) : e.m.selectedFlags[k] # Done
                    /\ IF m.needsNamespaceInput
                       THEN /\ e.m.currentScreen = NamespaceInputScreen
                            /\ e.m.selectedFlags = m.selectedFlags
                            /\ e.m.currentCommand = m.currentCommand
                       ELSE /\ e.m.currentScreen = CommandPreviewScreen
                            /\ GenericFlags(e.m.selectedFlags) = m.selectedFlags
                            /\ e.m.currentCommand =
                                   buildCommand(m.selectedResource, m.selectedAction,
                                                m.selectedResourceName,
                                                e.m.selectedFlags)

\* Done was confirmed with flags selected: once towards the namespace prompt
C16_Witness ==
    /\ m.currentScreen = NamespaceInputScreen
    /\ m.needsNamespaceInput
    /\ Len(m.selectedFlags) >= 1

\* C17: on the flags screen with the cursor on the separator, the space bar and
\* Enter both leave the model as it is and start no task.
C17_SeparatorIsInert ==
    m.currentScreen = FlagsSelectionScreen
    => \A i \in 1..Len(m.list) :
          m.list[i] = Separator
          => LET t == Update(m, KeyMsg(" "), In(i, <<>>, "ok"))
                 e == Update(m, KeyMsg("enter"), In(i, <<>>, "ok"))
             IN  /\ t.m = m
                 /\ t.cmd = NoCmd
                 /\ e.m = m
                 /\ e.cmd = NoCmd

\* the flags screen with the separator in the checklist, a flag and the
\* namespace entry checked
C17_Witness ==
    /\ m.currentScreen = FlagsSelectionScreen
    /\ \E i \in 1..Len(m.list) : m.list[i] = Separator
    /\ Len(m.selectedFlags) = 1
    /\ m.needsNamespaceInput

\* the screen shows a message: the error line of the view, or the list entry
\* that stands for an unavailable store
Reported(mm) ==
    \/ mm.err # NoErr
    \/ \E k \in 1..Len(mm.list) :
          mm.list[k] \in {<<"History unavailable">>, <<"Hotkeys unavailable">>}

\* Enter on the main menu entry at i opens a store that is not there
OpensMissingStore(mm, i) ==
    /\ mm.currentScreen = MainMenuScreen
    /\ i \in 1..Len(mm.list)
    /\ \/ mm.list[i] = <<"Favourites">> /\ ~mm.favStore
       \/ mm.list[i] = <<"Command History">> /\ ~mm.historyStore
       \/ mm.list[i] = <<"Hotkeys">> /\ ~mm.hotkeyStore

\* Enter on the name prompt saves a favourite into a store that is not there
SavesToMissingStore(mm, text) ==
    /\ mm.currentScreen = SaveFavouriteScreen
    /\ text # <<>>
    /\ ~mm.favStore

\* C18: Enter on an operation whose store is unavailable gives a model with
\* a message about it on the screen, and does not quit.
C18_MissingStoreReported ==
    \A i \in CursorChoices(m), text \in TextChoices(m) :
        (OpensMissingStore(m, i) \/ SavesToMissingStore(m, text))
        => LET r == Update(m, KeyMsg("enter"), In(i, text, "ok"))
           IN  Reported(r.m) /\ r.cmd # QuitCmd

\* the completion messages of the favourites store, the archive, the name
\* fetch and the context switch
CompletionTypes ==
    {"favouriteSavedMsg", "favouriteDeletedMsg", "favouriteRenamedMsg",
     "savedOutputsLoadedMsg", "outputSavedMsg", "savedOutputRenamedMsg",
     "resourceNamesLoadedMsg", "contextSwitchedMsg"}

\* the completion messages in flight that carry an error
FailedCompletions ==
    {inflight[k].msg : k \in {j \in 1..Len(inflight) :
                                /\ inflight[j].msg.type \in CompletionTypes
                                /\ inflight[j].msg.err # NoErr}}

\* C19: Update on a completion message that carries an error gives a model
\* with the error set for the view, and no quit.
C19_FailedCompletionReported ==
    \A msg \in FailedCompletions :
        LET r == Update(m, msg, In(0, <<>>, "ok"))
        IN  r.m.err # NoErr /\ r.cmd # QuitCmd

\* the execution left ExecuteRaw before kubectl ran: no current context, or
\* no argument in the command
FailedBeforeRun(msg) ==
    msg.result.Error \in {<<"no current context">>, <<"invalid command">>}

\* C20: the history changes only when an execution that got past the
\* connectivity precheck and the command check completes, and then gains the
\* raw command text once, at the front.
C20_HistoryOnlyOnSuccess ==
    [][history' # history
       => \E k \in 1..Len(inflight) :
             /\ inflight[k].kind = "executeCommand"
             /\ inflight[k].msg = NoMsg
             /\ inflight'[k].msg.type = "commandExecutedMsg"
             /\ ~FailedBeforeRun(inflight'[k].msg)
             /\ history' = <<inflight[k].args[2]>> \o history]_vars

\* the command-executed messages waiting for Update
ExecutedInFlight ==
    {inflight[k].msg : k \in {j \in 1..Len(inflight) :
                                inflight[j].msg.type = "commandExecutedMsg"}}

\* the text of the output view for a result: standard output under Output:,
\* after the standard error under Error: when there is some
FullOutput(result) ==
    IF result.Error = <<>> THEN <<"Output:">> \o result.Output
    ELSE <<"Error:">> \o result.Error \o <<"Output:">> \o result.Output

\* C21: Update on a command-executed message gives the output screen with
\* the content kept for saving equal to the text of the output view, which a
\* save started there carries whole; it never quits, whatever the error text.
C21_ExecutedKeepsFullOutput ==
    /\ \A msg \in ExecutedInFlight :
          LET r == Update(m, msg, In(0, <<>>, "ok"))
          IN  /\ r.m.currentScreen = CommandOutputScreen
              /\ r.m.viewport = FullOutput(msg.result)
              /\ r.m.currentOutputContent = r.m.viewport
              /\ r.cmd = NoCmd
              /\ saveOutputCmd(r.m, <<"a">>).args[2] = FullOutput(msg.result)
    /\ m.currentScreen = CommandOutputScreen => m.currentOutputContent = m.viewport

\* an execution with standard error was delivered, the wizard still runs
C21_Witness ==
    /\ m.currentScreen = CommandOutputScreen
    /\ Len(m.currentOutputContent) >= 1
    /\ m.currentOutputContent[1] = "Error:"
    /\ ~quit

\* the version a directory entry holds under base: 1 for the bare file, N for
\* base_vN, 0 when the entry is not under base
VersionUnder(entry, base) ==
    IF entry = base THEN 1
    ELSE IF /\ Len(entry) > Len(base) + 2
            /\ SubSeq(entry, 1, Len(base) + 2) = base \o <<"_", "v">>
            /\ \A j \in (Len(base) + 3)..Len(entry) : entry[j] \in Digit
    THEN Atoi(SubSeq(entry, Len(base) + 3, Len(entry)))
    ELSE 0

\* the name typed at the prompt has the form base_vN with a base
TypedVersioned(name) ==
    LET typed == Sanitised(name)
    IN  FindStringSubmatch(typed) # <<>> /\ FindStringSubmatch(typed)[2] # <<>>

\* C22: a successful save under a name of the form base_vN writes base when
\* no entry is under base, and base_v(max+1) otherwise, max being the
\* greatest version under base; the N typed plays no part.
C22_SaveIgnoresTypedVersion ==
    [][(/\ lastTask'.kind = "save"
        /\ lastTask' # lastTask
        /\ lastTask'.msg.err = NoErr
        /\ TypedVersioned(lastTask'.args[1]))
       => LET base == FindStringSubmatch(Sanitised(lastTask'.args[1]))[2]
              versions == {VersionUnder(e, base) : e \in DOMAIN files} \ {0}
              target == IF versions = {} THEN base
                        ELSE base \o <<"_", "v">> \o Itoa(SetMax(versions) + 1)
          IN  /\ files' = Put(files, target, lastTask'.args[2])
              /\ lastTask'.msg.filename = target \o Txt]_vars

\* the name a_v2 was typed while a_v2 was the greatest version: a_v3 written
C22_Witness ==
    /\ lastTask.kind = "save"
    /\ lastTask.args[1] = <<"a", "_", "v", "2">>
    /\ lastTask.msg.filename = <<"a", "_", "v", "3", ".txt">>

\* C23: with index.json malformed (the read of the index fails), 's' on the
\* output screen finds no archive for the command and opens the name prompt.
C23_MalformedIndexPrompts ==
    m.currentScreen = CommandOutputScreen
    => LET r == Update(m, KeyMsg("s"), In(0, <<>>, "fail"))
       IN  /\ r.m.currentScreen = SaveOutputNameScreen
           /\ r.cmd = NoCmd

\* the screens whose Enter reads the text field
TextFieldScreens ==
    {NamespaceInputScreen, SaveFavouriteScreen, RenameFavouriteScreen,
     SaveOutputNameScreen, RenameSavedOutputScreen, CustomCommandScreen}

\* C24: Enter on an empty text field (namespace, favourite name, output name,
\* rename target, custom command, ports) returns the same model, error
\* included, and no task.
C24_EmptyFieldIgnored ==
    /\ m.currentScreen \in TextFieldScreens
       => \A i \in CursorChoices(m) :
             LET r == Update(m, KeyMsg("enter"), In(i, <<>>, "ok"))
             IN  r.m = m /\ r.cmd = NoCmd
    /\ m.currentScreen = PortInputScreen
       => LET r == handlePortInput(m, <<>>)
          IN  r.m = m /\ r.cmd = NoCmd

\* the name prompt of a save, with an output waiting to be saved
C24_Witness ==
    /\ m.currentScreen = SaveOutputNameScreen
    /\ m.currentOutputContent # <<>>
    /\ m.currentCommand # <<>>

-----------------------------------------------------------------------------
(* BuildSpec: buildCommand applied to every choice of its four arguments   *)

AllActions ==
    {ActionGet, ActionDescribe, ActionLogs, ActionExtractField, ActionEdit,
     ActionDelete, ActionExec, ActionPortForward, ActionTop}

\* target names: none, and a pod name
BuildNames == {<<>>, <<"my-pod">>}

\* flag strings: a namespace flag in one piece and in two, a generic flag,
\* and the empty string
BuildFlags ==
    {<<"-n", " ", "default">>, <<"-n">>, <<"default">>, <<"-o wide">>, <<>>}

\* the flag lists of up to MaxFlags flags, repeats included
BuildFlagLists ==
    UNION {[1..n -> BuildFlags] : n \in 0..MaxFlags}

BuildInit ==
    /\ savedCmdDir = FALSE
    /\ files = EmptyMap
    /\ index = EmptyMap
    /\ lastTask = Task("none", <<>>, NoMsg)
    /\ favourites = <<>>
    /\ bindings = EmptyMap
    /\ history = <<>>
    /\ inflight = <<>>
    /\ quit = FALSE
    /\ flow = NoFlow
    /\ updates = 0
    /\ \E resource \in Resources, action \in AllActions,
          resourceName \in BuildNames, flags \in BuildFlagLists :
          m = [NewModel(TRUE, TRUE, TRUE) EXCEPT
                  !.selectedResource = resource,
                  !.selectedAction = action,
                  !.selectedResourceName = resourceName,
                  !.selectedFlags = flags]

\* m.currentCommand = buildCommand(...), as the finalising handlers assign it
BuildCommand ==
    /\ m.currentCommand = <<>>
    /\ m' = [m EXCEPT !.currentCommand =
                buildCommand(m.selectedResource, m.selectedAction,
                             m.selectedResourceName, m.selectedFlags)]
    /\ UNCHANGED <<storeVars, favourites, bindings, history, inflight, quit,
                   flow, updates>>

BuildNext == BuildCommand

BuildSpec == BuildInit /\ [][BuildNext]_vars

\* C25: for every resource kind, action, target name and flag list the built
\* command starts with "kubectl " and is the function of the four arguments.
C25_BuildStartsWithKubectl ==
    m.currentCommand # <<>>
    => /\ HasPrefix(m.currentCommand, <<"kubectl", " ">>)
       /\ \A other \in {m, [m EXCEPT !.currentScreen = CommandPreviewScreen,
                                     !.defaultNamespace = <<"dev">>,
                                     !.customNamespace = <<"prod">>]} :
             m.currentCommand =
                 buildCommand(other.selectedResource, other.selectedAction,
                              other.selectedResourceName, other.selectedFlags)

\* a command was built for an action without a sub-template, flags given
C25_Witness ==
    /\ m.currentCommand # <<>>
    /\ m.selectedAction = ActionExtractField
    /\ m.selectedResource = ResourcePods
    /\ Len(m.selectedFlags) = 2

\* the kind as kubectl takes it after "get": the display name in lower case
PluralKind(resource) ==
    CASE resource = "Pods" -> "pods"
      [] resource = "Deployments" -> "deployments"
      [] resource = "Services" -> "services"
      [] resource = "Nodes" -> "nodes"
      [] resource = "ConfigMaps" -> "configmaps"
      [] resource = "Secrets" -> "secrets"
      [] resource = "Ingress" -> "ingress"

\* the kind in the singular, as kubectl takes it after "describe"
SingularKind(resource) ==
    CASE resource = "Pods" -> "pod"
      [] resource = "Deployments" -> "deployment"
      [] resource = "Services" -> "service"
      [] resource = "Nodes" -> "node"
      [] resource = "ConfigMaps" -> "configmap"
      [] resource = "Secrets" -> "secret"
      [] resource = "Ingress" -> "ingress"

DescribeMyPodInDefault ==
    <<"kubectl", " ", "describe", " ", "pod", " ", "my-pod", " ", "-n", " ",
      "default">>

\* C26: Pods/Get without name and flags builds "kubectl get pods";
\* Pods/Describe of my-pod with the namespace flag, in one piece or in two,
\* builds "kubectl describe pod my-pod -n default"; Get builds
\* "kubectl get <plural kind>" whatever the name, Describe builds
\* "kubectl describe <singular kind> <name>", the flags following.
C26_BuildGetAndDescribe ==
    m.currentCommand # <<>>
    => LET get == <<"kubectl", " ", "get", " ", PluralKind(m.selectedResource)>>
           describe == <<"kubectl", " ", "describe", " ",
                         SingularKind(m.selectedResource), " ">>
                           \o m.selectedResourceName
       IN  /\ m.selectedAction = ActionGet
              => /\ HasPrefix(m.currentCommand, get)
                 /\ m.selectedFlags = <<>> => m.currentCommand = get
           /\ m.selectedAction = ActionDescribe
              => /\ HasPrefix(m.currentCommand, describe)
                 /\ m.selectedFlags = <<>> => m.currentCommand = describe
           /\ (/\ m.selectedAction = ActionDescribe
               /\ m.selectedResource = ResourcePods
               /\ m.selectedResourceName = <<"my-pod">>
               /\ m.selectedFlags \in {<<<<"-n", " ", "default">>>>,
                                       <<<<"-n">>, <<"default">>>>})
              => m.currentCommand = DescribeMyPodInDefault

\* the describe command was built from the namespace flag given in two pieces
C26_Witness ==
    /\ m.currentCommand = DescribeMyPodInDefault
    /\ m.selectedFlags = <<<<"-n">>, <<"default">>>>

\* the flags of a list one after the other, a space before each
RECURSIVE SpacedFlags(_)
SpacedFlags(flags) ==
    IF flags = <<>> THEN <<>>
    ELSE <<" ">> \o Head(flags) \o SpacedFlags(Tail(flags))

\* the command up to the end of the action sub-template
BuiltWithoutFlags(mm) ==
    buildCommand(mm.selectedResource, mm.selectedAction, mm.selectedResourceName,
                 <<>>)

\* C27 as stated: the built command is the sub-template followed by every
\* flag of the list in order, each after one space.
C27_BuildAppendsEveryFlag ==
    m.currentCommand # <<>>
    => m.currentCommand = BuiltWithoutFlags(m) \o SpacedFlags(m.selectedFlags)

\* C27: the built command is the sub-template followed by the non-empty flags
\* of the list in order, each after one space and as given, repeats included;
\* an empty flag adds nothing.
C27_BuildAppendsNonEmptyFlags ==
    m.currentCommand # <<>>
    => m.currentCommand =
           BuiltWithoutFlags(m)
               \o SpacedFlags(SelectSeq(m.selectedFlags, LAMBDA f : f # <<>>))

\* a command was built from a list that holds the same flag twice
C27_Witness ==
    /\ m.currentCommand # <<>>
    /\ m.selectedFlags = <<<<"-o wide">>, <<"-o wide">>>>
    /\ m.selectedAction = ActionLogs

\* no flag string stands twice in the list
NoDuplicates(flags) ==
    \A i, j \in 1..Len(flags) : flags[i] = flags[j] => i = j

\* flags without the entries equal to flag
WithoutFlag(flags, flag) == SelectSeq(flags, LAMBDA f : f # flag)

\* C28: the selected flags never hold a flag twice, and a step changes them
\* only by emptying the list, by taking one flag out, or by adding one flag
\* at the end, the flags that stay keeping their order.
C28_FlagsAreAnOrderedSet ==
    [][/\ NoDuplicates(m.selectedFlags)
       /\ NoDuplicates(m'.selectedFlags)
       /\ \/ m'.selectedFlags = m.selectedFlags
          \/ m'.selectedFlags = <<>>
          \/ \E k \in 1..Len(m.selectedFlags) :
                m'.selectedFlags = RemoveAt(m.selectedFlags, k)
          \/ /\ Len(m'.selectedFlags) = Len(m.selectedFlags) + 1
             /\ SubSeq(m'.selectedFlags, 1, Len(m.selectedFlags)) = m.selectedFlags]_vars

\* a default namespace was injected after two generic flags
C28_Witness ==
    /\ m.currentScreen = CommandPreviewScreen
    /\ Len(m.selectedFlags) = 3
    /\ m.selectedFlags[3] = <<"-n", " ">> \o m.defaultNamespace
    /\ m.defaultNamespace # <<>>

\* C29: the program ends only by a step taken on the main menu; there 'q'
\* (or ctrl+c) and Enter on Exit quit and Enter on any other entry does not;
\* on every other screen 'q' (or ctrl+c) gives the main menu and no quit.
C29_QuitOnlyFromMainMenu ==
    [][/\ quit' # quit => (quit' /\ m.currentScreen = MainMenuScreen)
       /\ m.currentScreen # MainMenuScreen
          => \A i \in CursorChoices(m), text \in TextChoices(m) :
                LET r == Update(m, KeyMsg("q"), In(i, text, "ok"))
                IN  r.cmd = NoCmd /\ r.m.currentScreen = MainMenuScreen
       /\ m.currentScreen = MainMenuScreen
          => /\ Update(m, KeyMsg("q"), In(0, <<>>, "ok")).cmd = QuitCmd
             /\ \A i \in 1..Len(m.list) :
                   (Update(m, KeyMsg("enter"), In(i, <<>>, "ok")).cmd = QuitCmd)
                   <=> m.list[i] = <<"Exit">>]_vars

\* the program ended on the main menu, reached by 'q' from the preview
C29_Witness ==
    /\ quit
    /\ m.currentScreen = MainMenuScreen
    /\ m.previousScreen = CommandPreviewScreen

\* C30: the output put on the output screen by a completed execution is that
\* of the active command, and while the same output stays on the output
\* screen the active command stays the same.
C30_OutputBelongsToActiveCommand ==
    [][/\ \A k \in 1..Len(inflight) :
             (/\ inflight[k].msg.type = "commandExecutedMsg"
              /\ inflight' = RemoveAt(inflight, k)
              /\ updates' = updates + 1
              /\ m' = Update(m, inflight[k].msg, In(0, <<>>, "ok")).m)
             => m'.currentCommand = inflight[k].args[2]
       /\ (/\ m.currentScreen = CommandOutputScreen
           /\ m'.currentScreen = CommandOutputScreen
           /\ m'.currentOutputContent = m.currentOutputContent)
          => m'.currentCommand = m.currentCommand]_vars

\* the messages a task in flight delivers: the one it produced, or one of
\* those it can still produce
PendingMsgs(task) ==
    IF task.msg # NoMsg THEN {task.msg}
    ELSE {runTask(task, env).msg : env \in TaskEnv(task)}

\* the messages of name-list, execution, help and connectivity tasks
ScreenCompletionTypes ==
    {"resourceNamesLoadedMsg", "commandExecutedMsg", "commandHelpLoadedMsg",
     "clusterConnectivityCheckedMsg"}

\* C31: when a key press brings the user back to the main menu while a
\* name-list, execution, help or connectivity task started before is in
\* flight, Update on that task's completion message leaves the main menu
\* current.
C31_LateCompletionKeepsMainMenu ==
    [][(m.currentScreen # MainMenuScreen /\ m'.currentScreen = MainMenuScreen)
       => \A k \in 1..Len(inflight) : \A msg \in PendingMsgs(inflight[k]) :
             msg.type \in ScreenCompletionTypes
             => Update(m', msg, In(0, <<>>, "ok")).m.currentScreen
                = MainMenuScreen]_vars

-----------------------------------------------------------------------------
(* RaceSpec: two tasks of saveOutput for one base run as goroutines; each  *)
(* is a sequence of system calls that interleave with the other's          *)

\* names typed at the save prompt that give the base "a"
RaceNames == { <<"a">>, <<"a", "_", "v", "2">>, <<"a", ".txt", " ">> }

GetNodes == <<"kubectl", " ", "get", " ", "nodes">>

\* the active commands the two tasks captured
RaceCommands == { GetPods, GetNodes }

\* a save task at its first statement
SaveTask(name, content, command) ==
    [kind |-> "saveOutput", args |-> <<name, content, command>>, msg |-> NoMsg,
     pc |-> "scan", targetName |-> <<>>, loaded |-> EmptyMap]

\* the base a save task computes from its name
raceBase(task) == baseName(TrimSpace(TrimSuffix(task.args[1], Txt)))

RaceInit ==
    /\ savedCmdDir = TRUE
    /\ \E saved \in BOOLEAN :
          /\ files = IF saved THEN Put(EmptyMap, <<"a">>, "out0") ELSE EmptyMap
          /\ index = IF saved THEN Put(EmptyMap, GetPods, <<"a">>) ELSE EmptyMap
    /\ lastTask = Task("none", <<>>, NoMsg)
    /\ favourites = <<>>
    /\ bindings = EmptyMap
    /\ history = <<>>
    /\ \E n1 \in RaceNames, n2 \in RaceNames, c1 \in Contents, c2 \in Contents,
          k1 \in RaceCommands, k2 \in RaceCommands :
          inflight = <<SaveTask(n1, c1, k1), SaveTask(n2, c2, k2)>>
    /\ quit = FALSE
    /\ flow = NoFlow
    /\ updates = 0
    /\ m = NewModel(TRUE, TRUE, TRUE)

RaceFrame == UNCHANGED <<lastTask, m, favourites, bindings, history, quit, flow, updates>>

\* os.Stat / os.Mkdir / os.ReadDir and the loop that finds maxVersion
RaceScan ==
    \E k \in 1..Len(inflight) :
        /\ inflight[k].pc = "scan"
        /\ savedCmdDir' = TRUE
        /\ inflight' = [inflight EXCEPT
              ![k].pc = "write",
              ![k].targetName = targetNameOf(raceBase(inflight[k]), files)]
        /\ UNCHANGED <<files, index>>
        /\ RaceFrame

\* os.WriteFile(filepath, content): creates the file or replaces its content
RaceWrite ==
    \E k \in 1..Len(inflight) :
        /\ inflight[k].pc = "write"
        /\ files' = Put(files, inflight[k].targetName, inflight[k].args[2])
        /\ inflight' = [inflight EXCEPT ![k].pc = "load"]
        /\ UNCHANGED <<savedCmdDir, index>>
        /\ RaceFrame

\* setSavedOutputBaseNameForCommand: index, err := m.loadSavedOutputsIndex()
RaceLoadIndex ==
    \E k \in 1..Len(inflight) :
        /\ inflight[k].pc = "load"
        /\ inflight' = [inflight EXCEPT ![k].pc = "store", ![k].loaded = index]
        /\ UNCHANGED <<savedCmdDir, files, index>>
        /\ RaceFrame

\* index[command] = baseName; m.saveSavedOutputsIndex(index); return outputSavedMsg
RaceStoreIndex ==
    \E k \in 1..Len(inflight) :
        /\ inflight[k].pc = "store"
        /\ index' = setSavedOutputBaseNameForCommand(
                        inflight[k].args[3], raceBase(inflight[k]), inflight[k].loaded)
        /\ inflight' = [inflight EXCEPT
              ![k].pc = "done",
              ![k].msg = outputSavedMsg(inflight[k].targetName \o Txt, NoErr)]
        /\ UNCHANGED <<savedCmdDir, files>>
        /\ RaceFrame

RaceNext ==
    \/ RaceScan
    \/ RaceWrite
    \/ RaceLoadIndex
    \/ RaceStoreIndex

RaceSpec == RaceInit /\ [][RaceNext]_vars

\* C32: when two concurrent saves for one base have both completed, they
\* named two distinct files, each file holds the content its save wrote, and
\* the index maps each save's command to the base.
C32_ConcurrentSavesBothKept ==
    (\A k \in 1..Len(inflight) : inflight[k].pc = "done")
    => /\ inflight[1].msg.filename # inflight[2].msg.filename
       /\ \A k \in 1..Len(inflight) :
             /\ inflight[k].targetName \in DOMAIN files
             /\ files[inflight[k].targetName] = inflight[k].args[2]
             /\ inflight[k].args[3] \in DOMAIN index
             /\ index[inflight[k].args[3]] = raceBase(inflight[k])

\* C33: after every completed store operation, each index entry names a
\* base for which savedOutputGroupExists finds at least one file.
C33_IndexPointsToExistingGroup ==
    \A cmd \in DOMAIN index : savedOutputGroupExists(index[cmd], savedCmdDir, files)

\* C34: right after a successful save with a non-blank active command, the
\* lookup of that command in the index answers with the base the save used.
C34_SaveThenResolveSameBase ==
    (/\ lastTask.kind = "save"
     /\ lastTask.msg.err = NoErr
     /\ TrimSpace(lastTask.args[3]) # <<>>)
    => LET r == getSavedOutputBaseNameForCommand(lastTask.args[3], savedCmdDir,
                                                 files, index)
       IN  /\ r.ok
           /\ r.name = baseName(TrimSpace(TrimSuffix(lastTask.args[1], Txt)))

\* C35: a successful save writes a file name that was not in the directory
\* before the save, and leaves every file that was there with its content.
C35_SaveNeverOverwrites ==
    [][(lastTask'.kind = "save" /\ lastTask'.msg.err = NoErr)
       => LET written == TrimSuffix(lastTask'.msg.filename, Txt)
          IN  /\ written \notin DOMAIN files
              /\ written \in DOMAIN files'
              /\ \A name \in DOMAIN files :
                    name \in DOMAIN files' /\ files'[name] = files[name]]_vars

\* a save into a directory that already held a.txt wrote a_v2.txt
C35_Witness ==
    /\ lastTask.kind = "save"
    /\ lastTask.msg.err = NoErr
    /\ lastTask.args[1] = <<"a">>
    /\ lastTask.msg.filename = <<"a", "_", "v", "2", ".txt">>
    /\ DOMAIN files = {<<"a">>, <<"a", "_", "v", "2">>}

-----------------------------------------------------------------------------
(* RouteSpec: the wizard from the main menu to the command preview, with   *)
(* every resource kind and every action the lists offer                    *)

RouteInit ==
    /\ lastTask = Task("none", <<>>, NoMsg)
    /\ savedCmdDir = FALSE
    /\ files = EmptyMap
    /\ index = EmptyMap
    /\ favourites = <<>>
    /\ history = <<>>
    /\ bindings = EmptyMap
    /\ inflight = <<>>
    /\ quit = FALSE
    /\ flow = NoFlow
    /\ updates = 0
    /\ m = NewModel(TRUE, TRUE, TRUE)

\* Enter on 'Run Command', on a resource kind, on an action or on a name
RoutePick ==
    /\ m.currentScreen \in {MainMenuScreen, ResourceSelectionScreen,
                            ActionSelectionScreen, ResourceNameSelectionScreen}
    /\ \E i \in 1..Len(m.list) :
          /\ m.currentScreen = MainMenuScreen => m.list[i] = <<"Run Command">>
          /\ Step(KeyMsg("enter"), Update(m, KeyMsg("enter"), In(i, <<>>, "ok")),
                  inflight)

\* Enter on an entry of the checklist
RouteDone ==
    /\ m.currentScreen = FlagsSelectionScreen
    /\ \E i \in 1..Len(m.list) :
          Step(KeyMsg("enter"), Update(m, KeyMsg("enter"), In(i, <<>>, "ok")),
               inflight)

\* Esc away from the main menu
RouteBack ==
    /\ m.currentScreen # MainMenuScreen
    /\ Step(KeyMsg("esc"), Update(m, KeyMsg("esc"), In(0, <<>>, "ok")), inflight)

RouteNext ==
    \/ RoutePick
    \/ RouteDone
    \/ RouteBack
    \/ RunTask
    \/ Deliver

RouteSpec == RouteInit /\ [][RouteNext]_vars

\* the checklist of a model offers the Done entry
HasDone(mm) == \E i \in 1..Len(mm.list) : mm.list[i] = Done

\* C36: when Enter on the action list or on the list of target names leads
\* to the flags screen, the checklist shown has the Done entry, and Enter on
\* it leads to the command preview.
C36_FlagsScreenOffersDone ==
    m.currentScreen \in {ActionSelectionScreen, ResourceNameSelectionScreen}
    => \A i \in 1..Len(m.list) :
          LET r == Update(m, KeyMsg("enter"), In(i, <<>>, "ok"))
          IN  r.m.currentScreen = FlagsSelectionScreen
              => /\ HasDone(r.m)
                 /\ \E j \in 1..Len(r.m.list) :
                       /\ r.m.list[j] = Done
                       /\ Update(r.m, KeyMsg("enter"), In(j, <<>>, "ok"))
                             .m.currentScreen = CommandPreviewScreen

\* C37: the binding-pending marker is set only while the hotkey-bind screen
\* is current, and a step taken on any other screen neither creates nor
\* replaces a binding.
C37_PendingOnlyOnBindScreen ==
    [][/\ m'.hotkeyBindingPending => m'.currentScreen = HotkeyBindScreen
       /\ m.currentScreen # HotkeyBindScreen
          => \A hk \in DOMAIN bindings' :
                hk \in DOMAIN bindings /\ bindings'[hk] = bindings[hk]]_vars

\* C38: Enter on 'Saved Outputs' of the main menu, followed by the listing
\* it starts and by the delivery of that listing, ends on the group list.
C38_SavedOutputsOpensGroupList ==
    m.currentScreen = MainMenuScreen
    => \A i \in 1..Len(m.list) :
          m.list[i] = <<"Saved Outputs">>
          => LET r == Update(m, KeyMsg("enter"), In(i, <<>>, "ok"))
                 listed == loadSavedOutputsCmd(savedCmdDir, files, index).msg
             IN  Update(r.m, listed, In(0, <<>>, "ok")).m.currentScreen
                 = SavedOutputsListScreen

\* one press of Esc, with the task it starts run and its message delivered
escRound(mm) ==
    LET r == Update(mm, KeyMsg("esc"), In(0, <<>>, "ok"))
    IN  IF r.cmd = NoCmd THEN r.m
        ELSE Update(r.m, runTask(Task(r.cmd.kind, r.cmd.args, NoMsg), "ok").msg,
                    In(0, <<>>, "ok")).m

RECURSIVE escRounds(_, _)
escRounds(mm, n) == IF n = 0 THEN mm ELSE escRounds(escRound(mm), n - 1)

\* C39: from the current screen, MaxEsc presses of Esc at most, each with
\* the completion it schedules delivered, end on the main menu.
C39_EscReachesMainMenu ==
    escRounds(m, MaxEsc).currentScreen = MainMenuScreen

\* the help screen is current, five presses away from the main menu
C39_Witness ==
    /\ m.currentScreen = CommandHelpScreen
    /\ escRound(m).currentScreen = CommandPreviewScreen
    /\ escRounds(m, 4).currentScreen = ResourceSelectionScreen
    /\ escRounds(m, 5).currentScreen = MainMenuScreen

-----------------------------------------------------------------------------
(* VersionsSpec: the saved-outputs screens over a group with two versions  *)

\* an earlier session saved the output of 'kubectl get pods' twice as "a"
VersionsInit ==
    /\ lastTask = Task("none", <<>>, NoMsg)
    /\ savedCmdDir = TRUE
    /\ files = Put(Put(EmptyMap, <<"a">>, <<"Output:", "stdout">>),
                   <<"a", "_", "v", "2">>, <<"Output:", "stdout">>)
    /\ index = Put(EmptyMap, GetPods, <<"a">>)
    /\ favourites = <<>>
    /\ history = <<>>
    /\ bindings = EmptyMap
    /\ inflight = <<>>
    /\ quit = FALSE
    /\ flow = NoFlow
    /\ updates = 0
    /\ m = NewModel(TRUE, TRUE, TRUE)

\* the keys of the saved-outputs screens
OnSavedOutputs ==
    m.currentScreen \in {SavedOutputsListScreen, SavedOutputVersionsScreen,
                         SavedOutputViewScreen, RenameSavedOutputScreen}

VersionsOpen ==
    /\ m.currentScreen = MainMenuScreen
    /\ \E i \in 1..Len(m.list) :
          /\ m.list[i] = <<"Saved Outputs">>
          /\ Step(KeyMsg("enter"), Update(m, KeyMsg("enter"), In(i, <<>>, "ok")),
                  inflight)

VersionsEnter == OnSavedOutputs /\ PressEnter

VersionsLeft == OnSavedOutputs /\ PressLeft

VersionsRight == OnSavedOutputs /\ PressRight

VersionsDelete == OnSavedOutputs /\ PressD

VersionsRename == OnSavedOutputs /\ PressR

VersionsBack == OnSavedOutputs /\ PressEsc

VersionsNext ==
    \/ VersionsOpen
    \/ VersionsEnter
    \/ VersionsLeft
    \/ VersionsRight
    \/ VersionsDelete
    \/ VersionsRename
    \/ VersionsBack
    \/ RunTask
    \/ Deliver

VersionsSpec == VersionsInit /\ [][VersionsNext]_vars

\* the versions of the group the versions screen shows
ShownVersions == versionsOf(m, m.selectedSavedOutputBase)

\* the version index after a key
IdxAfter(key) ==
    Update(m, KeyMsg(key), In(0, <<>>, "ok")).m.selectedSavedOutputVersionIdx

\* C40: on the versions screen of a group with at least one version the
\* version index is within 0..count-1, left moves it down and wraps from the
\* first to the last, right moves it up and wraps from the last to the first.
C40_VersionIndexInRange ==
    (m.currentScreen = SavedOutputVersionsScreen /\ Len(ShownVersions) > 0)
    => LET idx == m.selectedSavedOutputVersionIdx
           count == Len(ShownVersions)
       IN  /\ idx \in 0..(count - 1)
           /\ IdxAfter("left") = IF idx = 0 THEN count - 1 ELSE idx - 1
           /\ IdxAfter("right") = IF idx = count - 1 THEN 0 ELSE idx + 1

\* the second of two versions was deleted from the versions screen, and the
\* screen is back on the one version left
C40_Witness ==
    /\ m.currentScreen = SavedOutputVersionsScreen
    /\ DOMAIN files = {<<"a">>}
    /\ ShownVersions = << <<"a">> >>
    /\ m.selectedSavedOutputVersionIdx = 0
    /\ m.previousScreen = SavedOutputVersionsScreen

=============================================================================
